---- MODULE Spec2Model ----
(***************************************************************************)
(* Orchestration core of the Open Negotiation document system:             *)
(*   - DocumentTask lifecycle            (models/task_models.py)           *)
(*   - BaseAgent.execute_with_retry      (agents/document_agent/base_agent)*)
(*   - OrchestratorAgent pipeline        (agents/.../orchestrator_agent.py)*)
(*   - GenerationStats.merge             (models/result_models.py)         *)
(*   - the Router: Orchestrator.process  (src/orchestrator/orchestrator.py)*)
(*     and process_query (src/repi/app/services/orchestration_service.py)  *)
(*                                                                         *)
(* Specifications:                                                         *)
(*   RetrySpec, RetryLiveSpec : execute_with_retry run on one task with an *)
(*               arbitrary retry budget, around an arbitrary stage unit.   *)
(*   TwinSpec  : two such runs whose attempt outcomes differ in one place. *)
(*   LifecycleSpec : the DocumentTask lifecycle methods on any task.       *)
(*   Spec, FaultSpec, ConfigSpec : process_document_request, the validate  *)
(*               / generate / merge pipeline, with the two generation      *)
(*               units run through execute_with_retry.                     *)
(*   MergeSpec : the merge algebra of GenerationStats.                     *)
(*   RouterSpec : a session of requests served by the Router.              *)
(*   PayloadSpec, ResolveSpec, MergeFoldersSpec : the payload builders,    *)
(*               FileResolver.resolve_files and MergeAgent._merge_folders  *)
(*               called on their own.                                      *)
(*                                                                         *)
(* Optional[str] and Optional[dict] values are sequences of length <= 1:   *)
(* <<>> is None and <<v>> is the value v.  Times and durations are not     *)
(* modelled; a backoff delay is recorded in the list of sleeps.            *)
(***************************************************************************)
EXTENDS Integers, Sequences, FiniteSets, TLC

\* ------------------------------------------------------------------ bounds
\* Largest max_retries given to a task in RetrySpec.
MaxRetriesBound == 3
\* Largest total_records one generation unit reports.
MaxRecords == 2
\* Largest max_retries an OrchestratorAgent is configured with.
MaxConfigRetries == 4
\* Largest count in a statistics operand of the merge algebra.
MaxStat == 1
\* Most registrations in the registry.
MaxRegistrations == 2
\* Most requests (turns) in one session.
MaxTurns == 2

\* ------------------------------------------------------- program constants
\* DocumentTask.max_retries default
TaskDefaultMaxRetries == 3
\* AgentConfig defaults
DefaultMaxRetries == 3
DefaultRetryDelaySeconds == 1
DefaultRetryBackoffMultiplier == 2

None == <<>>
Range(seq) == {seq[i] : i \in 1..Len(seq)}

Units == {"group", "notice"}

\* TaskStatus enum values
TaskStatus ==
    {"pending", "in_progress", "completed", "failed", "partial_failure", "cancelled"}

\* Messages an exception may carry: str(e) may be the empty string.
FaultMessages == {"", "boom"}

\* ---------------------------------------------------------- DocumentTask
\* DocumentTask(...) with the dataclass defaults.
DocumentTask ==
    [status |-> "pending", retry_count |-> 0, max_retries |-> TaskDefaultMaxRetries,
     error_message |-> None, stats |-> None]

mark_in_progress(t) == [t EXCEPT !.status = "in_progress"]

\* `if stats: self.metadata["stats"] = stats`
mark_completed(t, stats) ==
    [t EXCEPT !.status = "completed",
              !.stats = IF stats # None THEN stats ELSE @]

mark_failed(t, error) == [t EXCEPT !.status = "failed", !.error_message = <<error>>]

mark_partial_failure(t, error, stats) ==
    [t EXCEPT !.status = "partial_failure",
              !.error_message = <<error>>,
              !.stats = IF stats # None THEN stats ELSE @]

\* Variant: the ceiling itself still counts as retryable.
can_retry_inclusive(t) == t.retry_count <= t.max_retries
can_retry(t) == t.retry_count < t.max_retries

increment_retry(t) == [t EXCEPT !.retry_count = @ + 1, !.status = "pending"]

\* ------------------------------------------------------------- BaseAgent
RECURSIVE Pow(_, _)
Pow(b, n) == IF n <= 0 THEN 1 ELSE b * Pow(b, n - 1)

\* AgentConfig built by _parse_config from the constructor's dictionary.
parse_config(max_retries, delay, multiplier, parallel) ==
    [max_retries |-> max_retries,
     retry_delay_seconds |-> delay,
     retry_backoff_multiplier |-> multiplier,
     enable_parallel_processing |-> parallel]

\* Variant: the exponent is the attempt number itself.
calculate_retry_delay_off_by_one(cfg, attempt) ==
    cfg.retry_delay_seconds * Pow(cfg.retry_backoff_multiplier, attempt)
\* _calculate_retry_delay
calculate_retry_delay(cfg, attempt) ==
    cfg.retry_delay_seconds * Pow(cfg.retry_backoff_multiplier, attempt - 1)

VARIABLES
    config,          \* self.config of the agents (AgentConfig)
    task,            \* [Units -> DocumentTask]: the task each executor runs
    upc,             \* [Units -> position inside execute_with_retry]
    last_error,      \* [Units -> Optional message of last_error]
    invocations,     \* [Units -> number of self.execute(task) calls so far]
    sleeps,          \* [Units -> delays passed to asyncio.sleep, in order]
    exit,            \* [Units -> the return statement execute_with_retry left by]
    order,           \* the units in the order their execute_with_retry returned
    document_config, \* the pipeline's configuration dictionary
    pc,              \* position inside process_document_request
    validation_task, \* the validation stage's task
    merge_task,      \* the merge stage's task
    result,          \* the ProcessingResult being built
    has_failures,    \* local has_failures of process_document_request
    calls,           \* number of execute calls on the validator and the merger
    operands,        \* [A, B, C]: three GenerationStats values handed to merge
    merged,          \* the two sides of the last merge identity evaluated
    router,          \* which implementation serves the requests
    registry,        \* agent_registry.json's agents / the rows of the agents table
    filesystem,      \* [base path -> the files under it]
    turn,            \* requests received so far in the session
    rpc,             \* position of the request in process / process_query
    routing_result,  \* the classifier's output for the request
    context,         \* context["base_path"] of the request (process_query)
    envelope,        \* the result dictionary being built
    selected,        \* the registration the lookup returned
    posts,           \* dispatch POSTs sent for the request: [endpoint, payload, outcome]
    lookups,         \* registry lookups made for the request
    resolutions,     \* file resolutions made for the request
    call,            \* a function called on its own: its name and arguments
    returned,        \* what that call returned or raised, None before it ran
    disk,            \* files under merged_output_folder: [path -> content]
    outcome,         \* the dictionary process_document_request returned, None before
    master_task      \* the task OrchestratorAgent.execute was called with

vars == <<config, task, upc, last_error, invocations, sleeps, exit, order,
          document_config, pc, validation_task, merge_task, result,
          has_failures, calls, operands, merged, router, registry, filesystem,
          turn, rpc, routing_result, context, envelope, selected, posts, lookups,
          resolutions, call, returned, disk, outcome, master_task>>

executorVars == <<task, upc, last_error, invocations, sleeps, exit, order>>
pipelineVars == <<document_config, pc, validation_task, merge_task, result,
                  has_failures, calls, outcome, master_task>>
mergeVars == <<operands, merged>>
callVars == <<call, returned, disk>>
routerVars == <<router, registry, filesystem, turn, rpc, routing_result, context,
                envelope, selected, posts, lookups, resolutions>>

\* ---------------------------------------------------------- stage units
\* What one call of an arbitrary stage unit's execute(task) can do: return the
\* task in any status, or raise with any message after touching the task.
AbstractStage(t) ==
    {[kind |-> "return", msg |-> "", task |-> mark_completed(mark_in_progress(t), None)]}
    \cup {[kind |-> "return", msg |-> "", task |-> mark_failed(mark_in_progress(t), m)] :
            m \in FaultMessages \cup {"stage error"}}
    \cup {[kind |-> "return", msg |-> "",
           task |-> mark_partial_failure(mark_in_progress(t), "partial", None)]}
    \cup {[kind |-> "return", msg |-> "", task |-> [t EXCEPT !.status = s]] :
            s \in {"pending", "in_progress", "cancelled"}}
    \cup {[kind |-> "raise", msg |-> m, task |-> mark_in_progress(t)] :
            m \in FaultMessages}

\* ---------------------------------------------------- execute_with_retry
\* `while task.can_retry(): ... result = await self.execute(task)`
Invoke(u, outcomes) ==
    /\ upc[u] = "loop"
    /\ can_retry(task[u])
    /\ \E o \in outcomes :
         /\ task' = [task EXCEPT ![u] = o.task]
         /\ IF o.kind = "raise"
              THEN /\ last_error' = [last_error EXCEPT ![u] = <<o.msg>>]
                   /\ upc' = [upc EXCEPT ![u] = "raised"]
              ELSE /\ last_error' = last_error
                   /\ upc' = [upc EXCEPT ![u] = "returned"]
    /\ invocations' = [invocations EXCEPT ![u] = @ + 1]
    /\ UNCHANGED <<sleeps, exit, order, config, mergeVars, callVars, routerVars, pipelineVars>>

\* The retry step shared by both paths: increment_retry, compute the delay
\* from task.retry_count, then asyncio.sleep(delay).
RetryAndSleep(u) ==
    LET t == increment_retry(task[u]) IN
    /\ task' = [task EXCEPT ![u] = t]
    /\ sleeps' = [sleeps EXCEPT ![u] = Append(@, calculate_retry_delay(config, t.retry_count))]
    /\ upc' = [upc EXCEPT ![u] = "sleeping"]
    /\ UNCHANGED <<exit, order>>

Return(u, how) ==
    /\ upc' = [upc EXCEPT ![u] = "done"]
    /\ exit' = [exit EXCEPT ![u] = how]
    /\ order' = Append(order, u)

\* Variant: a PartialFailure result is retried too.
Retryable_any_failure(t) == t.status \in {"failed", "partial_failure"} /\ can_retry(t)
\* `elif result.status == TaskStatus.FAILED and result.can_retry()`
Retryable(t) == t.status = "failed" /\ can_retry(t)

\* Lines 145-153: the branches on result.status.
Decide(u) ==
    /\ upc[u] = "returned"
    /\ UNCHANGED <<last_error, invocations, config, mergeVars, callVars, routerVars, pipelineVars>>
    /\ IF task[u].status = "completed"
         THEN Return(u, "completed") /\ UNCHANGED <<task, sleeps>>
         ELSE IF Retryable(task[u])
                THEN RetryAndSleep(u)
                ELSE Return(u, "as_is") /\ UNCHANGED <<task, sleeps>>

\* Variant: a raised fault ends the run at once, without a retry.
HandleFault_giving_up(u) ==
    /\ upc[u] = "raised"
    /\ UNCHANGED <<last_error, invocations, config, mergeVars, callVars, routerVars, pipelineVars>>
    /\ task' = [task EXCEPT ![u] = mark_failed(@, last_error[u][1])]
    /\ Return(u, "fault")
    /\ UNCHANGED sleeps

\* Lines 155-166: the except branch.
HandleFault(u) ==
    /\ upc[u] = "raised"
    /\ UNCHANGED <<last_error, invocations, config, mergeVars, callVars, routerVars, pipelineVars>>
    /\ IF can_retry(task[u])
         THEN RetryAndSleep(u)
         ELSE /\ task' = [task EXCEPT ![u] = mark_failed(@, last_error[u][1])]
              /\ Return(u, "fault")
              /\ UNCHANGED sleeps

\* Variant: the sleep never returns.
Wake_never(u) ==
    /\ upc[u] = "sleeping"
    /\ UNCHANGED vars

\* asyncio.sleep(delay) returns: back to the loop test.
Wake(u) ==
    /\ upc[u] = "sleeping"
    /\ upc' = [upc EXCEPT ![u] = "loop"]
    /\ UNCHANGED <<task, last_error, invocations, sleeps, exit, order, config, mergeVars, callVars, routerVars,
                   pipelineVars>>

\* Variant: the literal is used whether or not an attempt raised.
ExhaustedMessage_literal(le) == "Max retries exceeded"
\* `str(last_error) if last_error else "Max retries exceeded"`: an exception
\* object is truthy whatever its message.
ExhaustedMessage(le) == IF le # None THEN le[1] ELSE "Max retries exceeded"

\* Lines 168-172: the loop test fails.
Exhausted(u) ==
    /\ upc[u] = "loop"
    /\ ~can_retry(task[u])
    /\ task' = [task EXCEPT ![u] = mark_failed(@, ExhaustedMessage(last_error[u]))]
    /\ Return(u, "exhausted")
    /\ UNCHANGED <<last_error, invocations, sleeps, config, mergeVars, callVars, routerVars, pipelineVars>>

\* ------------------------------------------------------------- RetrySpec
\* execute_with_retry on one task (held in slot "group") of any budget.
IdleExecutor ==
    /\ last_error = [u \in Units |-> None]
    /\ invocations = [u \in Units |-> 0]
    /\ sleeps = [u \in Units |-> <<>>]
    /\ exit = [u \in Units |-> "none"]
    /\ order = <<>>

IdlePipeline ==
    /\ document_config = [excel_path |-> None, template_docx |-> None,
                          output_group_folder |-> None,
                          output_notice_folder |-> None,
                          merged_output_folder |-> None]
    /\ pc = "start"
    /\ validation_task = DocumentTask
    /\ merge_task = DocumentTask
    /\ result = [status |-> "PENDING", output_folder |-> None, stats |-> None,
                 errors |-> <<>>, warnings |-> <<>>, completed_at |-> FALSE, finalized |-> 0]
    /\ has_failures = FALSE
    /\ calls = [validator |-> 0, merger |-> 0]
    /\ outcome = None
    /\ master_task = DocumentTask

\* GenerationStats(): the dataclass defaults.
GenerationStats ==
    [total_records |-> 0, successful |-> 0, failed |-> 0, skipped |-> 0,
     output_files |-> <<>>, errors |-> <<>>]

IdleMerge ==
    /\ operands = [A |-> GenerationStats, B |-> GenerationStats, C |-> GenerationStats]
    /\ merged = [identity |-> "none", lhs |-> GenerationStats, rhs |-> GenerationStats]

\* The Router at rest: no registry loaded, no request received.
BasePaths == {"in/a", "in/b"}

NoRouting ==
    [parsed |-> TRUE, agent |-> None, subagent |-> None, client_name |-> "",
     wave_number |-> ""]

\* Orchestrator.process, lines 267-273
NewEnvelope ==
    [status |-> "PENDING", routing_decision |-> None, file_resolution |-> None,
     execution_result |-> None, errors |-> <<>>]

\* No function is being exercised on its own.
IdleCall ==
    /\ call = [fn |-> "none"]
    /\ returned = <<>>
    /\ disk = <<>>

IdleRouter ==
    /\ router = "process"
    /\ registry = <<>>
    /\ filesystem = [b \in BasePaths |-> {}]
    /\ turn = 0
    /\ rpc = "idle"
    /\ routing_result = [type |-> "error", response |-> "", routing |-> NoRouting]
    /\ context = None
    /\ envelope = NewEnvelope
    /\ selected = None
    /\ posts = <<>>
    /\ lookups = 0
    /\ resolutions = 0

RetryInit ==
    /\ \E d \in {1, 3}, m \in {2, 3} :
         config = parse_config(DefaultMaxRetries, d, m, TRUE)
    /\ \E mr \in 0..MaxRetriesBound : \E rc \in 0..mr :
         task = [u \in Units |->
                   IF u = "group"
                     THEN [DocumentTask EXCEPT !.max_retries = mr, !.retry_count = rc]
                     ELSE DocumentTask]
    /\ upc = [u \in Units |-> IF u = "group" THEN "loop" ELSE "idle"]
    /\ IdleExecutor
    /\ IdlePipeline
    /\ IdleMerge
    /\ IdleRouter
    /\ IdleCall

\* self.execute of an arbitrary BaseAgent subclass.
StageInvoke(u) == Invoke(u, AbstractStage(task[u]))

RetryNext ==
    \E u \in Units :
        \/ StageInvoke(u)
        \/ Decide(u)
        \/ HandleFault(u)
        \/ Wake(u)
        \/ Exhausted(u)

RetrySpec == RetryInit /\ [][RetryNext]_vars

\* The same runs under the scheduling the event loop gives the coroutine: an
\* awaited self.execute returns or raises, an awaited asyncio.sleep returns,
\* and the statements in between are executed, so a step that can be taken
\* is taken.
RetryLiveSpec == RetryInit /\ [][RetryNext]_vars /\ WF_vars(RetryNext)

\* --------------------------------------------------------- LifecycleSpec
\* The lifecycle methods and execute_with_retry called on a task (slot
\* "group") that is in any status: DocumentTask has no guard on its status.
LifecycleOp(after) ==
    /\ call.fn = "DocumentTask"
    /\ upc["group"] = "idle"
    /\ task' = [task EXCEPT !["group"] = after]
    /\ UNCHANGED <<upc, last_error, invocations, sleeps, exit, order, config, mergeVars,
                   callVars, routerVars, pipelineVars>>

MarkInProgress ==
    /\ call.fn = "DocumentTask"
    /\ LifecycleOp(mark_in_progress(task["group"]))
MarkFailed ==
    /\ \E error \in FaultMessages : LifecycleOp(mark_failed(task["group"], error))
MarkPartialFailure ==
    /\ call.fn = "DocumentTask"
    /\ LifecycleOp(mark_partial_failure(task["group"], "partial", None))
IncrementRetry ==
    /\ task["group"].retry_count <= MaxRetriesBound
    /\ LifecycleOp(increment_retry(task["group"]))

\* agent.execute_with_retry(task) is called, once.
ExecuteWithRetry ==
    /\ call.fn = "DocumentTask"
    /\ upc["group"] = "idle"
    /\ exit["group"] = "none"
    /\ upc' = [upc EXCEPT !["group"] = "loop"]
    /\ UNCHANGED <<task, last_error, invocations, sleeps, exit, order, config, mergeVars,
                   callVars, routerVars, pipelineVars>>

LifecycleInit ==
    /\ config = parse_config(DefaultMaxRetries, DefaultRetryDelaySeconds,
                             DefaultRetryBackoffMultiplier, TRUE)
    /\ \E status \in TaskStatus, mr \in 0..MaxRetriesBound, error \in {None, <<"boom">>} :
         \E rc \in 0..mr :
            task = [u \in Units |->
                      IF u = "group"
                        THEN [DocumentTask EXCEPT !.status = status, !.max_retries = mr,
                                                  !.retry_count = rc,
                                                  !.error_message = error]
                        ELSE DocumentTask]
    /\ upc = [u \in Units |-> "idle"]
    /\ IdleExecutor
    /\ IdlePipeline
    /\ IdleMerge
    /\ IdleRouter
    /\ call = [fn |-> "DocumentTask"]
    /\ returned = None
    /\ disk = <<>>

LifecycleNext ==
    \/ MarkInProgress
    \/ MarkFailed
    \/ MarkPartialFailure
    \/ IncrementRetry
    \/ ExecuteWithRetry
    \/ RetryNext

LifecycleSpec == LifecycleInit /\ [][LifecycleNext]_vars

\* -------------------------------------------------------------- TwinSpec
\* execute_with_retry run twice on equal tasks, slot "group" and slot "notice",
\* around stage units whose attempts follow two given sequences of outcomes.
\* The second sequence is the first with one attempt replaced: a returned
\* Failed result by a raised fault, or a raised fault by a Failed result.
OutcomeClasses == TaskStatus \cup {"raise"}

\* What an attempt of self.execute did: raised, or returned in some status.
ClassOf(o) == IF o.kind = "raise" THEN "raise" ELSE o.task.status

Replaced(class) ==
    CASE class = "failed" -> "raise"
      [] class = "raise" -> "failed"
      [] OTHER -> class

\* self.execute whose next attempt ends as the sequence given for it says; the
\* second run is started when the first has returned.
ScriptedInvoke(u) ==
    /\ call.fn = "execute_with_retry"
    /\ u = "notice" => upc["group"] = "done"
    /\ invocations[u] < Len(call.outcomes[u])
    /\ Invoke(u, {o \in AbstractStage(task[u]) :
                    ClassOf(o) = call.outcomes[u][invocations[u] + 1]})

TwinInit ==
    /\ config = parse_config(DefaultMaxRetries, DefaultRetryDelaySeconds,
                             DefaultRetryBackoffMultiplier, TRUE)
    /\ \E mr \in 0..MaxRetriesBound : \E rc \in 0..mr :
         task = [u \in Units |->
                   [DocumentTask EXCEPT !.max_retries = mr, !.retry_count = rc]]
    /\ upc = [u \in Units |-> "loop"]
    /\ IdleExecutor
    /\ IdlePipeline
    /\ IdleMerge
    /\ IdleRouter
    /\ \E outcomes \in [1..MaxRetriesBound -> OutcomeClasses], k \in 1..MaxRetriesBound :
         call = [fn |-> "execute_with_retry",
                 replaced |-> k,
                 outcomes |-> [u \in Units |->
                                 IF u = "group" THEN outcomes
                                 ELSE [outcomes EXCEPT ![k] = Replaced(@)]]]
    /\ returned = None
    /\ disk = <<>>

TwinNext ==
    \E u \in Units :
        \/ ScriptedInvoke(u)
        \/ Decide(u)
        \/ HandleFault(u)
        \/ Wake(u)
        \/ Exhausted(u)

TwinSpec == TwinInit /\ [][TwinNext]_vars

\* ------------------------------------------------------- GenerationStats
\* Variant: an operand with no records is skipped, its lists with it.
merge_skipping_empty(a, b) ==
    IF b.total_records = 0 THEN a
    ELSE [total_records |-> a.total_records + b.total_records,
          successful |-> a.successful + b.successful,
          failed |-> a.failed + b.failed,
          skipped |-> a.skipped + b.skipped,
          output_files |-> a.output_files \o b.output_files,
          errors |-> a.errors \o b.errors]

\* Variant: the other operand's skipped count is left out.
merge_keeping_own_skipped(a, b) ==
    [total_records |-> a.total_records + b.total_records,
     successful |-> a.successful + b.successful,
     failed |-> a.failed + b.failed,
     skipped |-> a.skipped,
     output_files |-> a.output_files \o b.output_files,
     errors |-> a.errors \o b.errors]

\* GenerationStats.merge (duration_seconds, a float sum, is left out).
merge(a, b) ==
    [total_records |-> a.total_records + b.total_records,
     successful |-> a.successful + b.successful,
     failed |-> a.failed + b.failed,
     skipped |-> a.skipped + b.skipped,
     output_files |-> a.output_files \o b.output_files,
     errors |-> a.errors \o b.errors]

\* ------------------------------------------------------------- MergeSpec
\* GenerationStats values with any counts up to MaxStat; add_success and
\* add_failure append one entry per count, named after the operand.
StatsOperands(name) ==
    {[total_records |-> t, successful |-> s, failed |-> f, skipped |-> k,
      output_files |-> [i \in 1..s |-> name],
      errors |-> [i \in 1..f |-> name]] :
        t \in 0..MaxStat, s \in 0..MaxStat, f \in 0..MaxStat, k \in 0..MaxStat}

\* A.merge(B).merge(C) against A.merge(B.merge(C))
MergeThree ==
    /\ merged.identity # "associate"
    /\ merged' = [identity |-> "associate",
                  lhs |-> merge(merge(operands.A, operands.B), operands.C),
                  rhs |-> merge(operands.A, merge(operands.B, operands.C))]
    /\ UNCHANGED <<operands, config, executorVars, pipelineVars, routerVars, callVars>>

\* A.merge(B) against B.merge(A)
MergeTwo ==
    /\ merged.identity # "commute"
    /\ merged' = [identity |-> "commute",
                  lhs |-> merge(operands.A, operands.B),
                  rhs |-> merge(operands.B, operands.A)]
    /\ UNCHANGED <<operands, config, executorVars, pipelineVars, routerVars, callVars>>

MergeInit ==
    /\ operands \in [A : StatsOperands("A"), B : StatsOperands("B"),
                      C : StatsOperands("C")]
    /\ merged = [identity |-> "none", lhs |-> GenerationStats, rhs |-> GenerationStats]
    /\ config = parse_config(DefaultMaxRetries, DefaultRetryDelaySeconds,
                             DefaultRetryBackoffMultiplier, TRUE)
    /\ task = [u \in Units |-> DocumentTask]
    /\ upc = [u \in Units |-> "idle"]
    /\ IdleExecutor
    /\ IdlePipeline
    /\ IdleRouter
    /\ IdleCall

MergeNext ==
    \/ MergeThree
    \/ MergeTwo

MergeSpec == MergeInit /\ [][MergeNext]_vars

\* ----------------------------------------------------- generation units
Truthy(opt) == opt # None /\ opt[1] # ""

\* The statistics _generate_groups / _generate_notices can return: every
\* record of total_records is counted once, as successful, failed or skipped,
\* and every failure adds one error string.
UnitStats(u) ==
    {[total_records |-> s + f + k, successful |-> s, failed |-> f, skipped |-> k,
      output_files |-> [i \in 1..s |-> u],
      errors |-> [i \in 1..f |-> "Failed for NPI"]] :
        s \in 0..MaxRecords, f \in 0..MaxRecords, k \in 0..MaxRecords}

\* `if not excel_path or not output_folder` (group) and
\* `if not all([excel_path, template_path, output_folder])` (notice).
UnitInputsPresent(u, dc) ==
    IF u = "group"
      THEN Truthy(dc.excel_path) /\ Truthy(dc.output_group_folder)
      ELSE Truthy(dc.excel_path) /\ Truthy(dc.template_docx)
           /\ Truthy(dc.output_notice_folder)

MissingInputMessage(u) ==
    IF u = "group" THEN "Missing excel_path or output_group_folder in input_data"
                   ELSE "Missing required input_data fields"

PartialFailureMessage(u) ==
    IF u = "group" THEN "groups failed to generate" ELSE "notices failed to generate"

\* stats.to_dict(): what the unit stores in task.metadata["stats"] (the list of
\* output files is reduced to a count there, and is not read back).
to_dict(s) == [s EXCEPT !.output_files = <<>>]

\* GroupGenerationAgent.execute / NoticeGenerationAgent.execute: every
\* exception of the generation is caught and turned into a Failed task.
GenerationStage(u, t, dc) ==
    LET t1 == mark_in_progress(t) IN
    IF ~UnitInputsPresent(u, dc)
      THEN {[kind |-> "return", msg |-> "", task |-> mark_failed(t1, MissingInputMessage(u))]}
      ELSE {[kind |-> "return", msg |-> "", task |-> mark_failed(t1, m)] :
              m \in FaultMessages}
           \cup
           {[kind |-> "return", msg |-> "",
             task |-> LET t2 == [t1 EXCEPT !.stats = <<to_dict(s)>>] IN
                      IF s.failed = 0
                        THEN mark_completed(t2, <<to_dict(s)>>)
                        ELSE mark_partial_failure(t2, PartialFailureMessage(u),
                                                  <<to_dict(s)>>)] :
              s \in {x \in UnitStats(u) : x.total_records <= MaxRecords}}

\* self.execute of a generation agent.
UnitInvoke(u) == Invoke(u, GenerationStage(u, task[u], document_config))

\* ------------------------------------------------------ ProcessingResult
\* ProcessingResult(status="PENDING")
ProcessingResult ==
    [status |-> "PENDING", output_folder |-> None, stats |-> None,
     errors |-> <<>>, warnings |-> <<>>, completed_at |-> FALSE, finalized |-> 0]

\* ProcessingResult.mark_completed; `finalized` counts its calls.
result_mark_completed(r, status) ==
    [r EXCEPT !.status = status, !.completed_at = TRUE, !.finalized = @ + 1]

\* ProcessingResult.to_dict: "stats" is set only under `if self.stats`;
\* duration_seconds is 0.0 until completed_at is set.
result_to_dict(r) ==
    LET result_dict == [status |-> r.status,
                        output_folder |-> r.output_folder,
                        duration_seconds |-> IF r.completed_at THEN "elapsed" ELSE "0.0",
                        errors |-> r.errors,
                        warnings |-> r.warnings] IN
    IF r.stats # None
      THEN ("stats" :> to_dict(r.stats[1])) @@ result_dict
      ELSE result_dict

\* ----------------------------------------------------- OrchestratorAgent
\* _validate_config: the keys whose absence raises ValueError.
MissingKeys(dc) == IF dc.excel_path = None THEN {"excel_path"} ELSE {}

\* _validate_config: the defaults for the output folders.
WithDefaults(dc) ==
    [dc EXCEPT !.output_group_folder = IF @ = None THEN <<"output/groups">> ELSE @,
               !.output_notice_folder = IF @ = None THEN <<"output/notices">> ELSE @,
               !.merged_output_folder = IF @ = None THEN <<"output/merged">> ELSE @]

\* DocumentTask(task_id=..., document_type=..., input_data=document_config):
\* the generation tasks are built with the dataclass's own max_retries.
NewGenerationTask(cfg) == DocumentTask

\* Variant: the handler sets the status and drops the message.
handle_exception_silently(r, message) == result_mark_completed(r, "FAILED")
\* Variant: the handler returns the outcome without finalizing it.
handle_exception_unfinalized(r, message) ==
    [r EXCEPT !.status = "FAILED", !.errors = Append(@, message)]
\* Lines 281-286, `except Exception as e`: status FAILED, str(e) appended to
\* errors, mark_completed("FAILED").
handle_exception(r, message) ==
    result_mark_completed([r EXCEPT !.status = "FAILED", !.errors = Append(@, message)],
                          "FAILED")

\* Lines 143-158: start, _validate_config, and the call of the validator.
Begin ==
    /\ pc = "start"
    /\ IF MissingKeys(document_config) # {}
         THEN /\ result' = handle_exception(
                     result, "Missing required configuration keys: ['excel_path']")
              /\ outcome' = <<result_to_dict(result')>>
              /\ pc' = "done"
              /\ UNCHANGED <<document_config, calls>>
         ELSE /\ document_config' = WithDefaults(document_config)
              /\ calls' = [calls EXCEPT !.validator = @ + 1]
              /\ pc' = "validating"
              /\ UNCHANGED <<result, outcome>>
    /\ UNCHANGED <<config, mergeVars, callVars, routerVars, executorVars, validation_task,
                   merge_task, has_failures, master_task>>

\* ValidationAgent.execute: the outcome depends on the files read; a
\* structural error or an exception marks the task Failed.
ValidationMessages ==
    {"", "boom", "Validation failed: ['Excel file not found: data.xlsx']"}

ValidationWarnings == {<<>>, <<"1 duplicate claim numbers found">>}

ValidationStage(t, dc) ==
    {[task |-> mark_completed(mark_in_progress(t), None), warnings |-> w] :
        w \in ValidationWarnings}
    \cup {[task |-> mark_failed(mark_in_progress(t), m), warnings |-> <<>>] :
            m \in ValidationMessages}

\* f"Validation failed: {validation_result.error_message}"
ValidationError(m) ==
    CASE m = <<"">> -> "Validation failed: "
      [] m = <<"boom">> -> "Validation failed: boom"
      [] OTHER -> "Validation failed: Validation failed: ['Excel file not found: data.xlsx']"

\* Variant: the validator's result is compared with the wrong status.
ValidationBlocks_wrong_status(t) == t.status = "partial_failure"
\* `if validation_result.status == TaskStatus.FAILED`
ValidationBlocks(t) == t.status = "failed"

\* Lines 158-209: the validator returns; on failure the run ends, otherwise the
\* two generation tasks are created and the generators are started.
ValidationDone ==
    /\ pc = "validating"
    /\ \E o \in ValidationStage(validation_task, document_config) :
         /\ validation_task' = o.task
         /\ IF ValidationBlocks(o.task)
              THEN /\ result' = result_mark_completed(
                          [result EXCEPT !.errors =
                              Append(@, ValidationError(o.task.error_message))],
                          "FAILED")
                   /\ outcome' = <<result_to_dict(result')>>
                   /\ pc' = "done"
                   /\ UNCHANGED <<task, upc>>
              ELSE /\ result' = [result EXCEPT !.warnings = @ \o o.warnings]
                   /\ outcome' = outcome
                   /\ pc' = "generating"
                   /\ task' = [u \in Units |-> NewGenerationTask(config)]
                   /\ upc' = [u \in Units |->
                                IF config.enable_parallel_processing \/ u = "group"
                                  THEN "loop" ELSE "idle"]
    /\ UNCHANGED <<config, mergeVars, callVars, routerVars, last_error, invocations, sleeps,
                   exit, order, document_config, merge_task, has_failures, calls,
                   master_task>>

\* Sequential mode, lines 206-209: the notice generator is awaited after the
\* group generator has returned.
StartNotice ==
    /\ pc = "generating"
    /\ ~config.enable_parallel_processing
    /\ upc["group"] = "done"
    /\ upc["notice"] = "idle"
    /\ upc' = [upc EXCEPT !["notice"] = "loop"]
    /\ UNCHANGED <<config, mergeVars, callVars, routerVars, task, last_error, invocations, sleeps, exit, order,
                   pipelineVars>>

\* `gen_result.error_message or <default>`
MessageOr(m, default) == IF Truthy(m) THEN m[1] ELSE default

\* stats_data = gen_result.metadata.get("stats", {}) read into GenerationStats
StatsOf(t) ==
    IF t.stats = None THEN GenerationStats
    ELSE [GenerationStats EXCEPT !.total_records = t.stats[1].total_records,
                                 !.successful = t.stats[1].successful,
                                 !.failed = t.stats[1].failed,
                                 !.skipped = t.stats[1].skipped,
                                 !.errors = t.stats[1].errors]

\* Variant: a PartialFailure unit does not set has_failures.
ReportsFailure_failed_only(t) == t.status = "failed"
\* Lines 220-225: the statuses that set has_failures.
ReportsFailure(t) == t.status \in {"failed", "partial_failure"}

\* Lines 211-237, the loop body for one generation result: an accumulator
\* [stats, has_failures, errors, warnings] folded over the results in order.
AggregateOne(acc, t) ==
    [stats |-> merge(acc.stats, StatsOf(t)),
     has_failures |-> acc.has_failures \/ ReportsFailure(t),
     errors |-> IF t.status = "failed"
                  THEN Append(acc.errors, MessageOr(t.error_message, "Generation failed"))
                  ELSE acc.errors,
     warnings |-> IF t.status = "partial_failure"
                    THEN Append(acc.warnings, MessageOr(t.error_message, "Partial failure"))
                    ELSE acc.warnings]

\* Variant: the notice result is left out when the group result is Failed.
AggregateAll_skipping_sibling(r, tasks) ==
    LET first == AggregateOne([stats |-> GenerationStats, has_failures |-> FALSE,
                               errors |-> r.errors, warnings |-> r.warnings],
                              tasks["group"]) IN
    IF tasks["group"].status = "failed" THEN first
    ELSE AggregateOne(first, tasks["notice"])

\* Variant: the results are folded in the order the units completed.
AggregateAll_completion_order(r, tasks) ==
    AggregateOne(
        AggregateOne([stats |-> GenerationStats, has_failures |-> FALSE,
                      errors |-> r.errors, warnings |-> r.warnings],
                     tasks[order[1]]),
        tasks[order[2]])

\* generation_results is [group result, notice result] in both modes.
\* execute_with_retry catches every Exception, so each result is a task and
\* the `isinstance(gen_result, Exception)` branch (lines 216-218) is not taken.
AggregateAll(r, tasks) ==
    AggregateOne(
        AggregateOne([stats |-> GenerationStats, has_failures |-> FALSE,
                      errors |-> r.errors, warnings |-> r.warnings],
                     tasks["group"]),
        tasks["notice"])

\* Variant: the test on total_records is dropped.
AllGenerationFailed_ignoring_total(stats) == stats.successful = 0
\* `if combined_stats.successful == 0 and combined_stats.total_records > 0`
AllGenerationFailed(stats) == stats.successful = 0 /\ stats.total_records > 0

\* Variant: aggregation starts when the first generator has returned.
GeneratorsReturned_first(p) == \E u \in Units : p[u] = "done"
\* asyncio.gather / the two sequential awaits: both results are in hand.
GeneratorsReturned(p) == \A u \in Units : p[u] = "done"

\* Lines 211-257: both generators have returned; aggregate, short-circuit or
\* call the merger.
Aggregate ==
    /\ pc = "generating"
    /\ GeneratorsReturned(upc)
    /\ LET acc == AggregateAll(result, task)
           r == [result EXCEPT !.stats = <<acc.stats>>, !.errors = acc.errors,
                               !.warnings = acc.warnings] IN
         /\ has_failures' = acc.has_failures
         /\ IF AllGenerationFailed(acc.stats)
              THEN /\ result' = result_mark_completed(
                          [r EXCEPT !.errors = Append(@, "All document generation failed")],
                          "FAILED")
                   /\ outcome' = <<result_to_dict(result')>>
                   /\ pc' = "done"
                   /\ UNCHANGED calls
              ELSE /\ result' = r
                   /\ outcome' = outcome
                   /\ pc' = "merging"
                   /\ calls' = [calls EXCEPT !.merger = @ + 1]
    /\ UNCHANGED <<config, mergeVars, callVars, routerVars, executorVars, document_config,
                   validation_task, merge_task, master_task>>

\* MergeAgent.execute: Failed on a missing folder path or an exception,
\* Completed otherwise.
MergeStage(t, dc) ==
    LET t1 == mark_in_progress(t) IN
    IF ~(Truthy(dc.output_group_folder) /\ Truthy(dc.output_notice_folder)
         /\ Truthy(dc.merged_output_folder))
      THEN {mark_failed(t1, "Missing required folder paths")}
      ELSE {mark_failed(t1, m) : m \in FaultMessages}
           \cup {mark_completed(t1, <<GenerationStats>>)}

\* f"Merge failed: {merge_result.error_message}"
MergeWarning(m) ==
    CASE m = <<"">> -> "Merge failed: "
      [] m = <<"boom">> -> "Merge failed: boom"
      [] OTHER -> "Merge failed: Missing required folder paths"

\* Variant: every finalized run is reported as a partial failure.
FinalStatus_always_partial(failures) == "PARTIAL_FAILURE"
\* Lines 266-269
FinalStatus(failures) == IF failures THEN "PARTIAL_FAILURE" ELSE "SUCCESS"

\* Variant: the merger's result is compared with the wrong status.
MergeFailed_wrong_status(t) == t.status = "cancelled"
\* `if merge_result.status == TaskStatus.FAILED`
MergeFailed(t) == t.status = "failed"

\* Lines 257-279: the merger returns; finalize.
MergeDone ==
    /\ pc = "merging"
    /\ \E t \in MergeStage(merge_task, document_config) :
         /\ merge_task' = t
         /\ LET r == IF MergeFailed(t)
                       THEN [result EXCEPT !.warnings =
                                Append(@, MergeWarning(t.error_message))]
                       ELSE [result EXCEPT !.output_folder =
                                document_config.merged_output_folder] IN
            result' = result_mark_completed(r, FinalStatus(has_failures))
    /\ outcome' = <<result_to_dict(result')>>
    /\ pc' = "done"
    /\ UNCHANGED <<config, mergeVars, callVars, routerVars, executorVars, document_config,
                   validation_task, has_failures, calls, master_task>>

\* "; ".join(errors), as the pieces of the joined string
RECURSIVE Join(_)
Join(errors) ==
    IF errors = <<>> THEN <<>>
    ELSE IF Len(errors) = 1 THEN <<errors[1]>>
    ELSE <<errors[1], "; ">> \o Join(Tail(errors))

\* OrchestratorAgent.execute, lines 92-105: the master task is marked from the
\* dictionary process_document_request returned.
execute(t, result_dict) ==
    IF result_dict.status = "SUCCESS"
      THEN mark_completed(t, <<result_dict>>)
    ELSE IF result_dict.status = "PARTIAL_FAILURE"
      THEN mark_partial_failure(t, Join(result_dict.errors), <<result_dict>>)
    ELSE mark_failed(t, Join(result_dict.errors))

ExecuteReturns ==
    /\ pc = "done"
    /\ master_task.status = "in_progress"
    /\ master_task' = execute(master_task, outcome[1])
    /\ UNCHANGED <<config, mergeVars, callVars, routerVars, executorVars, document_config,
                   pc, validation_task, merge_task, result, has_failures, calls, outcome>>

\* ------------------------------------------------------------------ Spec
ExcelPaths == {None, <<"">>, <<"data.xlsx">>}
TemplatePaths == {None, <<"template.docx">>}
GroupFolders == {None, <<"">>}

Init ==
    /\ \E mr \in 0..MaxConfigRetries, par \in BOOLEAN :
         config = parse_config(mr, DefaultRetryDelaySeconds,
                               DefaultRetryBackoffMultiplier, par)
    /\ \E e \in ExcelPaths, tpl \in TemplatePaths, g \in GroupFolders :
         document_config = [excel_path |-> e, template_docx |-> tpl,
                            output_group_folder |-> g,
                            output_notice_folder |-> None,
                            merged_output_folder |-> None]
    /\ pc = "start"
    /\ task = [u \in Units |-> DocumentTask]
    /\ upc = [u \in Units |-> "idle"]
    /\ IdleExecutor
    /\ validation_task = DocumentTask
    /\ merge_task = DocumentTask
    /\ result = ProcessingResult
    /\ has_failures = FALSE
    /\ calls = [validator |-> 0, merger |-> 0]
    /\ outcome = None
    /\ master_task = mark_in_progress(DocumentTask)
    /\ IdleMerge
    /\ IdleRouter
    /\ IdleCall

\* The generation agents catch every exception of their own execute and
\* return a Failed task, so the except branch of execute_with_retry
\* (HandleFault) has no step in the pipeline.
Next ==
    \/ Begin
    \/ ValidationDone
    \/ StartNotice
    \/ \E u \in Units :
         \/ UnitInvoke(u)
         \/ Decide(u)
         \/ Wake(u)
         \/ Exhausted(u)
    \/ Aggregate
    \/ MergeDone
    \/ ExecuteReturns

Spec == Init /\ [][Next]_vars

\* ------------------------------------------------------------- FaultSpec
\* The pipeline with stage units that can let an exception out: the validator
\* and the merger are called as self.agents[...].execute(task) inside the try
\* block, and whatever their execute raises is caught at line 281. (The
\* generation units run under execute_with_retry, which catches theirs.)
StageRaises ==
    /\ pc \in {"validating", "merging"}
    /\ \E message \in FaultMessages :
         result' = handle_exception(result, message)
    /\ outcome' = <<result_to_dict(result')>>
    /\ pc' = "done"
    /\ UNCHANGED <<config, mergeVars, callVars, routerVars, executorVars, document_config,
                   validation_task, merge_task, has_failures, calls, master_task>>

FaultNext ==
    \/ Next
    \/ StageRaises

FaultSpec == Init /\ [][FaultNext]_vars

\* ------------------------------------------------------------ ConfigSpec
\* The pipeline up to the start of the generation units, over configurations
\* that name their output folders themselves.
OutputFolders == {None, <<"">>, <<"out">>, <<"output/groups">>, <<"output/notices">>}

ConfigInit ==
    /\ config = parse_config(DefaultMaxRetries, DefaultRetryDelaySeconds,
                             DefaultRetryBackoffMultiplier, TRUE)
    /\ \E e \in ExcelPaths, tpl \in TemplatePaths, g \in OutputFolders, n \in OutputFolders,
          m \in {None, <<"out">>} :
         document_config = [excel_path |-> e, template_docx |-> tpl,
                            output_group_folder |-> g,
                            output_notice_folder |-> n,
                            merged_output_folder |-> m]
    /\ pc = "start"
    /\ task = [u \in Units |-> DocumentTask]
    /\ upc = [u \in Units |-> "idle"]
    /\ IdleExecutor
    /\ validation_task = DocumentTask
    /\ merge_task = DocumentTask
    /\ result = ProcessingResult
    /\ has_failures = FALSE
    /\ calls = [validator |-> 0, merger |-> 0]
    /\ outcome = None
    /\ master_task = mark_in_progress(DocumentTask)
    /\ IdleMerge
    /\ IdleRouter
    /\ IdleCall

ConfigNext ==
    \/ Begin
    \/ ValidationDone

ConfigSpec == ConfigInit /\ [][ConfigNext]_vars

\* ================================================================ Router
\* Two implementations serve a request: Orchestrator.process
\* (src/orchestrator/orchestrator.py) and process_query
\* (src/repi/app/services/orchestration_service.py).
Routers == {"process", "process_query"}

\* A string is kept as the sequence of its pieces, so that replace, format
\* and the f-strings act on it; JSON values carry their type.
Str(pieces) == [type |-> "str", text |-> pieces]
JsonTrue == [type |-> "bool", text |-> <<"true">>]
JsonNull == [type |-> "null", text |-> <<>>]

\* The params dictionary's keys, and the placeholders a template can hold
\* ("{provider}" names a parameter the Router never extracts).
ParamNames == {"client_name", "wave_number", "agent_name", "subagent_name"}
Placeholders ==
    {"{client_name}", "{wave_number}", "{agent_name}", "{subagent_name}", "{provider}"}
ParamOf(piece) ==
    CASE piece = "{client_name}" -> "client_name"
      [] piece = "{wave_number}" -> "wave_number"
      [] piece = "{agent_name}" -> "agent_name"
      [] piece = "{subagent_name}" -> "subagent_name"
      [] OTHER -> "provider"

\* value.startswith("resolved_")
StartsWithResolved(text) == Len(text) > 0 /\ text[1] = "resolved_"
\* "{" in value
HasBrace(text) == \E i \in 1..Len(text) : text[i] \in Placeholders
\* value.replace("resolved_", "").replace("_path", "")
NotAffix(piece) == piece \notin {"resolved_", "_path"}
FileTypeOf(text) == SelectSeq(text, NotAffix)
\* value.format(**params): KeyError when a placeholder names no parameter
Formattable(text, params) ==
    \A i \in 1..Len(text) :
        text[i] \in Placeholders => ParamOf(text[i]) \in DOMAIN params
format(text, params) ==
    [i \in 1..Len(text) |->
        IF text[i] \in Placeholders THEN params[ParamOf(text[i])] ELSE text[i]]

\* resolved_files.get(file_type), as a JSON value
GetResolved(resolved_files, file_type) ==
    IF Len(file_type) = 1 /\ file_type[1] \in DOMAIN resolved_files
         /\ resolved_files[file_type[1]] # None
      THEN Str(resolved_files[file_type[1]][1])
      ELSE JsonNull

\* One entry of the payload: the for-loop body shared by
\* _build_agent_payload and _build_payload (the template branch differs).
PayloadEntry(value, resolved_files, params) ==
    IF value.type # "str" THEN value
    ELSE IF StartsWithResolved(value.text)
           THEN GetResolved(resolved_files, FileTypeOf(value.text))
    ELSE IF HasBrace(value.text) /\ Formattable(value.text, params)
           THEN Str(format(value.text, params))
    ELSE value

\* Keys whose template raises KeyError in value.format(**params).
UnformattableKeys(mapping, params) ==
    {k \in DOMAIN mapping :
        /\ mapping[k].type = "str"
        /\ ~StartsWithResolved(mapping[k].text)
        /\ HasBrace(mapping[k].text)
        /\ ~Formattable(mapping[k].text, params)}

\* str(KeyError) of value.format(**params): the quoted name of the first
\* placeholder that names no parameter.
KeyErrorOf(mapping, params) ==
    LET k == CHOOSE key \in UnformattableKeys(mapping, params) : TRUE
        text == mapping[k].text
        absent(i) == text[i] \in Placeholders /\ ParamOf(text[i]) \notin DOMAIN params
        first == CHOOSE i \in 1..Len(text) :
                    absent(i) /\ \A j \in 1..(i - 1) : ~absent(j)
    IN <<"'", ParamOf(text[first]), "'">>

\* ----------------------------------------------------------- registrations
FilesMapping ==
    ("excel_path" :> Str(<<"resolved_", "excel", "_path">>))
    @@ ("template_docx" :> Str(<<"resolved_", "template", "_path">>))
    @@ ("client" :> Str(<<"{client_name}">>))
    @@ ("parallel" :> JsonTrue)

ExcelMapping ==
    ("excel_path" :> Str(<<"resolved_", "excel", "_path">>))
    @@ ("wave" :> Str(<<"W", "{wave_number}">>))

StaticMapping ==
    ("mode" :> Str(<<"notify">>)) @@ ("title" :> Str(<<"{client_name}", " W", "{wave_number}">>))

BrokenMapping ==
    ("mode" :> Str(<<"notify">>)) @@ ("sender" :> Str(<<"{provider}">>))

NoFileResolution ==
    [enabled |-> FALSE, base_path |-> None, required_params |-> <<>>, patterns |-> <<>>]

\* Entries of agent_registry.json.
Registrations ==
    {[agent_name |-> "opn", subagent_name |-> <<"group">>,
      endpoint |-> <<"http://opn/group">>,
      file_resolution |-> [enabled |-> TRUE, base_path |-> <<"in/a">>,
                           required_params |-> <<"client_name", "wave_number">>,
                           patterns |-> <<"excel", "template">>],
      payload_mapping |-> FilesMapping],
     [agent_name |-> "opn", subagent_name |-> <<"notice">>,
      endpoint |-> <<"http://opn/notice">>,
      file_resolution |-> [enabled |-> TRUE, base_path |-> <<"in/b">>,
                           required_params |-> <<"client_name">>,
                           patterns |-> <<"excel">>],
      payload_mapping |-> ExcelMapping],
     [agent_name |-> "opn", subagent_name |-> None,
      endpoint |-> <<"http://opn">>,
      file_resolution |-> NoFileResolution,
      payload_mapping |-> StaticMapping],
     [agent_name |-> "mail", subagent_name |-> None,
      endpoint |-> <<"http://mail">>,
      file_resolution |-> NoFileResolution,
      payload_mapping |-> BrokenMapping]}

\* Rows of the agents table: name, endpoint and payload_mapping (nullable);
\* the table has no subagent column.
AgentRows ==
    {[name |-> "opn", endpoint |-> <<"http://opn">>, payload_mapping |-> <<FilesMapping>>],
     [name |-> "opn", endpoint |-> <<"http://opn/static">>,
      payload_mapping |-> <<StaticMapping>>],
     [name |-> "mail", endpoint |-> <<"http://mail">>, payload_mapping |-> <<BrokenMapping>>],
     [name |-> "mail", endpoint |-> <<"http://mail/raw">>, payload_mapping |-> None],
     [name |-> "draft", endpoint |-> None, payload_mapping |-> None]}

RECURSIVE SeqsUpTo(_, _)
SeqsUpTo(S, n) ==
    IF n = 0 THEN {<<>>}
    ELSE LET shorter == SeqsUpTo(S, n - 1) IN
         shorter \cup {Append(q, x) : q \in shorter, x \in S}

\* ------------------------------------------------------------- filesystem
ExcelFile == <<"CEP", " W", "6", " REPORT", ".xlsx">>
TemplateFile == <<"OpenNeg_", "Template", ".docx">>
Directories == {{}, {ExcelFile}, {ExcelFile, TemplateFile}}

\* glob of "{client_name} W{wave_number}*.xlsx" and of "*Template*.docx"
GlobMatches(file_type, client_name, wave_number, f) ==
    IF file_type = "excel"
      THEN /\ Len(f) >= 4
           /\ f[1] = client_name /\ f[2] = " W" /\ f[3] = wave_number
           /\ f[Len(f)] = ".xlsx"
      ELSE /\ \E i \in 1..Len(f) : f[i] = "Template"
           /\ f[Len(f)] = ".docx"

\* The orders in which a directory can list its files: glob.glob returns its
\* matches in the order os.scandir yields them, which is arbitrary.
Listings(directory) ==
    {q \in [1..Cardinality(directory) -> directory] : Range(q) = directory}

\* glob.glob(str(search_path)) for a directory listed in the order `listing`
glob(listing, file_type, client_name, wave_number) ==
    SelectSeq(listing, LAMBDA f : GlobMatches(file_type, client_name, wave_number, f))

\* FileResolver.resolve_files for that listing: one entry per pattern key,
\* str(Path(matches[0]).resolve()) or None.
resolve_files_listed(base_path, listing, client_name, wave_number, patterns) ==
    [ft \in Range(patterns) |->
        LET matches == glob(listing, ft, client_name, wave_number) IN
        IF matches # <<>> THEN <<(<<base_path, "/">> \o matches[1])>>
        ELSE None]

\* FileResolver.resolve_files on the Router's filesystem, whose directories
\* hold at most one match per pattern, so that the listing order is immaterial.
resolve_files(base_path, client_name, wave_number, patterns) ==
    resolve_files_listed(base_path, CHOOSE l \in Listings(filesystem[base_path]) : TRUE,
                         client_name, wave_number, patterns)

\* FileResolver.validate_resolved_files: the required types left unresolved.
MissingFiles(resolved, required) ==
    SelectSeq(required, LAMBDA ft : ft \notin DOMAIN resolved \/ resolved[ft] = None)

\* ------------------------------------------------------ classifier output
PassThroughTypes == {"clarification", "confirmation", "agent_inquiry", "invalid_query"}
ResponseTexts == {"", "Which client?"}

\* json.loads(routing_response.get("routing", "{}")) and the .get calls on it:
\* `parsed` is FALSE for text that is not JSON; agent and subagent are None
\* when their key is absent.
RoutingData ==
    {[parsed |-> TRUE, agent |-> a, subagent |-> s, client_name |-> c, wave_number |-> w] :
        a \in {None, <<"opn">>, <<"OPN">>, <<"mail">>, <<"draft">>},
        s \in {None, <<"group">>, <<"notice">>},
        c \in {"", "CEP"}, w \in {"", "6"}}
    \cup {[parsed |-> FALSE, agent |-> None, subagent |-> None,
           client_name |-> "", wave_number |-> ""]}

ClassifierOutputs ==
    {[type |-> t, response |-> r, routing |-> NoRouting] :
        t \in PassThroughTypes \cup {"error"}, r \in ResponseTexts}
    \cup {[type |-> "routing", response |-> "", routing |-> d] : d \in RoutingData}

\* What the dispatch POST can end in: a 2xx response with a JSON body, or a
\* fault (httpx.HTTPError for transport, timeout and status; a body that is
\* not JSON raises ValueError).
AgentReplies ==
    {[status |-> "SUCCESS", errors |-> <<>>],
     [status |-> "FAILED", errors |-> <<<<"All document generation failed">>>>]}
DispatchFaults ==
    {[kind |-> "transport", http |-> TRUE, msg |-> "All connection attempts failed"],
     [kind |-> "timeout", http |-> TRUE, msg |-> ""],
     [kind |-> "status", http |-> TRUE, msg |-> "Server error '500 Internal Server Error'"],
     [kind |-> "decode", http |-> FALSE, msg |-> "Expecting value"]}

\* ---------------------------------------------------- Orchestrator.process
\* Variant: the error is recorded and the status is left as it was.
Fail_keeping_status(e, error) == [e EXCEPT !.errors = Append(@, error)]
Fail(e, error) == [e EXCEPT !.status = "FAILED", !.errors = Append(@, error)]

\* Variant: invalid_query is not passed through.
PassThrough_without_invalid_query(type) ==
    type \in {"clarification", "confirmation", "agent_inquiry"}
\* `if response_type in ["clarification", "confirmation", "agent_inquiry", "invalid_query"]`
PassThrough(type) ==
    type \in {"clarification", "confirmation", "agent_inquiry", "invalid_query"}

\* _find_agent_config: the first registration of that name whose subagent is
\* not contradicted by a named subagent.
RECURSIVE find_from(_, _, _, _)
find_from(reg, i, agent_name, subagent_name) ==
    IF i > Len(reg) THEN None
    ELSE IF agent_name = <<reg[i].agent_name>>
            /\ ~(Truthy(subagent_name) /\ reg[i].subagent_name # subagent_name)
           THEN <<reg[i]>>
    ELSE find_from(reg, i + 1, agent_name, subagent_name)

find_agent_config(agent_name, subagent_name) ==
    find_from(registry, 1, agent_name, subagent_name)

\* Orchestrator.__init__: the FileResolver is built once, from the first
\* registration's base_path; None without one.
file_resolver == registry[1].file_resolution.base_path

\* _resolve_file_paths
resolve_file_paths(agent_config, params) ==
    IF file_resolver = None THEN <<>>
    ELSE IF ~agent_config.file_resolution.enabled THEN <<>>
    ELSE resolve_files(file_resolver[1], params.client_name, params.wave_number,
                       agent_config.file_resolution.patterns)

\* `[p for p in required_params if not params.get(p)]`
MissingParams(required_params, params) ==
    SelectSeq(required_params, LAMBDA p : p \notin DOMAIN params \/ params[p] = "")

\* _build_agent_payload
build_agent_payload(agent_config, resolved_files, params) ==
    [k \in DOMAIN agent_config.payload_mapping |->
        PayloadEntry(agent_config.payload_mapping[k], resolved_files, params)]

\* Lines 278-351, from the classifier's response to the dispatch POST or an
\* early return: the envelope, the registration selected, the POST sent, and
\* how many registry lookups and file resolutions were made.
ProcessRouted(rr) ==
    LET e0 == [NewEnvelope EXCEPT !.routing_decision = <<rr>>]
        d == rr.routing
        params == [p \in ParamNames |->
                     CASE p = "client_name" -> d.client_name
                       [] p = "wave_number" -> d.wave_number
                       [] p = "agent_name" -> IF d.agent = None THEN "" ELSE d.agent[1]
                       [] OTHER -> IF d.subagent = None THEN "" ELSE d.subagent[1]]
        found == find_agent_config(d.agent, d.subagent)
        stop(e, l, r) == [envelope |-> e, lookups |-> l, resolutions |-> r,
                          selected |-> IF l = 0 THEN None ELSE found, post |-> None]
    IN
    IF PassThrough(rr.type)
      THEN stop(("message" :> <<rr.response>>) @@ [e0 EXCEPT !.status = "AWAITING_USER_INPUT"],
                0, 0)
    ELSE IF rr.type # "routing"
      THEN stop(Fail(e0, <<"Unexpected response type: ", rr.type>>), 0, 0)
    ELSE IF ~d.parsed
      THEN stop(Fail(e0, <<"Unexpected error: ", "Expecting value">>), 0, 0)
    ELSE IF found = None
      THEN stop(Fail(e0, <<"No configuration found for agent: ",
                         IF d.agent = None THEN "None" ELSE d.agent[1]>>), 1, 0)
    ELSE
      LET agent_config == found[1]
          file_config == agent_config.file_resolution
          resolved_files == resolve_file_paths(agent_config, params)
          e1 == [e0 EXCEPT !.file_resolution = <<resolved_files>>]
          missing_params == MissingParams(file_config.required_params, params)
          missing == MissingFiles(resolved_files, file_config.patterns)
          payload == build_agent_payload(agent_config, resolved_files, params)
      IN
      IF file_config.enabled /\ missing_params # <<>>
        THEN stop(Fail(e1, <<"Missing required parameters: ">> \o missing_params), 1, 1)
      ELSE IF file_config.enabled /\ file_resolver = None
        THEN stop(Fail(e1, <<"Unexpected error: ",
                             "'NoneType' object has no attribute 'validate_resolved_files'">>),
                  1, 1)
      ELSE IF file_config.enabled /\ missing # <<>>
        THEN stop(Fail([e1 EXCEPT !.file_resolution =
                           <<("missing" :> <<missing>>) @@ resolved_files>>],
                       <<"Could not resolve required files: ">> \o missing), 1, 1)
      ELSE IF UnformattableKeys(agent_config.payload_mapping, params) # {}
        THEN stop(Fail(e1, <<"Unexpected error: ">>
                           \o KeyErrorOf(agent_config.payload_mapping, params)), 1, 1)
      ELSE IF agent_config.endpoint = None
        THEN stop(Fail(e1, <<"Unexpected error: ", "'endpoint'">>), 1, 1)
      ELSE [envelope |-> e1, lookups |-> 1, resolutions |-> 1, selected |-> found,
            post |-> <<[endpoint |-> agent_config.endpoint[1], payload |-> payload,
                        outcome |-> "pending"]>>]

\* ------------------------------------------------------------ process_query
\* Lines 35-42
NewQueryEnvelope(rr) ==
    [status |-> "PENDING", routing_decision |-> <<rr>>, file_resolution |-> None,
     execution_result |-> None, message |-> None, errors |-> <<>>]

\* `if response_type in ["clarification", "confirmation", "agent_inquiry", "invalid_query"]`
QueryPassThrough(type) ==
    type \in {"clarification", "confirmation", "agent_inquiry", "invalid_query"}

\* _get_agent_by_name: `filter(Agent.name == agent_name).first()`, any row of
\* that name (the query has no ORDER BY); None when there is none.
get_agent_by_name(agent_name) ==
    IF \E i \in 1..Len(registry) : registry[i].name = agent_name
      THEN {<<registry[i]>> : i \in {j \in 1..Len(registry) : registry[j].name = agent_name}}
      ELSE {None}

\* _resolve_files: line 146 holds `patterns = {}` inside a comment, so the
\* first use of `patterns` raises NameError, which the function's own
\* `except Exception` turns into the empty dictionary.
query_resolve_files(agent, params, base_path) == <<>>

\* _build_payload: the params themselves when `not agent.payload_mapping`
\* (NULL or the empty dictionary); a template whose parameter is missing is
\* kept as the literal.
build_payload(agent, params, resolved_files) ==
    IF agent.payload_mapping = None \/ DOMAIN agent.payload_mapping[1] = {}
      THEN [p \in DOMAIN params |-> Str(<<params[p]>>)]
      ELSE [k \in DOMAIN agent.payload_mapping[1] |->
              PayloadEntry(agent.payload_mapping[1][k], resolved_files, params)]

\* Lines 44-102, for the row `found` that _get_agent_by_name returned.
ProcessQueryRouted(rr, ctx, found) ==
    LET e0 == NewQueryEnvelope(rr)
        d == rr.routing
        stop(e, l, r) == [envelope |-> e, lookups |-> l, resolutions |-> r,
                          selected |-> IF l = 0 THEN None ELSE found, post |-> None]
    IN
    IF QueryPassThrough(rr.type)
      THEN stop([e0 EXCEPT !.status = "AWAITING_USER_INPUT", !.message = <<rr.response>>],
                0, 0)
    ELSE IF rr.type # "routing"
      THEN stop(Fail(e0, <<"Unexpected response type: ", rr.type>>), 0, 0)
    ELSE IF ~d.parsed
      THEN stop(Fail(e0, <<"Unexpected error: ", "Expecting value">>), 0, 0)
    ELSE IF ~Truthy(d.agent)
      THEN stop(Fail(e0, <<"No agent specified in routing">>), 0, 0)
    ELSE IF found = None
      THEN stop(Fail(e0, <<"Agent not found in database: ", d.agent[1]>>), 1, 0)
    ELSE IF found[1].endpoint = None
      THEN stop(Fail(e0, <<"Agent '", d.agent[1],
                           "' does not have an endpoint configured. Cannot execute.">>),
                1, 0)
    ELSE
      LET agent == found[1]
          params == [p \in ParamNames |->
                       CASE p = "client_name" -> d.client_name
                         [] p = "wave_number" -> d.wave_number
                         [] p = "agent_name" -> d.agent[1]
                         [] OTHER -> IF d.subagent = None THEN "" ELSE d.subagent[1]]
          resolving == agent.payload_mapping # None /\ Truthy(ctx)
          resolved_files == IF resolving THEN query_resolve_files(agent, params, ctx[1])
                            ELSE <<>>
          e1 == IF resolving THEN [e0 EXCEPT !.file_resolution = <<resolved_files>>]
                ELSE e0
      IN
      [envelope |-> e1, lookups |-> 1,
       resolutions |-> IF resolving THEN 1 ELSE 0,
       selected |-> found,
       post |-> <<[endpoint |-> agent.endpoint[1],
                   payload |-> build_payload(agent, params, resolved_files),
                   outcome |-> "pending"]>>]

\* ------------------------------------------------------------- RouterSpec
\* Variant: a failed dispatch goes back to routing the request.
AfterFault_retrying == "routing"
\* Lines 357-365 of Orchestrator.process: each except branch returns.
AfterFault == "done"

\* A request arrives (one turn of the session) and the classifier is asked.
Receive ==
    /\ rpc = "idle"
    /\ turn < MaxTurns
    /\ turn' = turn + 1
    /\ routing_result' \in ClassifierOutputs
    /\ context' \in IF router = "process_query" THEN {None, <<"in/a">>} ELSE {None}
    /\ envelope' = IF router = "process" THEN NewEnvelope
                   ELSE NewQueryEnvelope(routing_result')
    /\ selected' = None
    /\ posts' = <<>>
    /\ lookups' = 0
    /\ resolutions' = 0
    /\ rpc' = "routing"
    /\ UNCHANGED <<router, registry, filesystem, config, executorVars, pipelineVars,
                   mergeVars, callVars>>

\* call_repi raises (line 277): the except branches of lines 357-365.
RepiFails ==
    /\ rpc = "routing"
    /\ router = "process"
    /\ \E f \in DispatchFaults :
         envelope' = Fail(envelope, <<IF f.http THEN "HTTP error: " ELSE "Unexpected error: ",
                                      f.msg>>)
    /\ rpc' = "done"
    /\ UNCHANGED <<router, registry, filesystem, turn, routing_result, context, selected,
                   posts, lookups, resolutions, config, executorVars, pipelineVars,
                   mergeVars, callVars>>

\* call_repi returns: Orchestrator.process up to its return or its POST.
Route ==
    /\ rpc = "routing"
    /\ router = "process"
    /\ LET o == ProcessRouted(routing_result) IN
         /\ envelope' = o.envelope
         /\ selected' = o.selected
         /\ lookups' = lookups + o.lookups
         /\ resolutions' = resolutions + o.resolutions
         /\ posts' = IF o.post = None THEN posts ELSE Append(posts, o.post[1])
         /\ rpc' = IF o.post = None THEN "done" ELSE "dispatching"
    /\ UNCHANGED <<router, registry, filesystem, turn, routing_result, context, config,
                   executorVars, pipelineVars, mergeVars, callVars>>

\* call_agent returns the agent's JSON (lines 351-355).
AgentReturns ==
    /\ rpc = "dispatching"
    /\ router = "process"
    /\ \E reply \in AgentReplies :
         envelope' = [envelope EXCEPT !.execution_result = <<reply>>, !.status = "SUCCESS"]
    /\ posts' = [posts EXCEPT ![Len(posts)].outcome = "ok"]
    /\ rpc' = "done"
    /\ UNCHANGED <<router, registry, filesystem, turn, routing_result, context, selected,
                   lookups, resolutions, config, executorVars, pipelineVars, mergeVars, callVars>>

\* call_agent raises (lines 357-365).
AgentFails ==
    /\ rpc = "dispatching"
    /\ router = "process"
    /\ \E f \in DispatchFaults :
         /\ envelope' = Fail(envelope, <<IF f.http THEN "HTTP error: "
                                                  ELSE "Unexpected error: ", f.msg>>)
         /\ posts' = [posts EXCEPT ![Len(posts)].outcome = f.kind]
    /\ rpc' = AfterFault
    /\ UNCHANGED <<router, registry, filesystem, turn, routing_result, context, selected,
                   lookups, resolutions, config, executorVars, pipelineVars, mergeVars, callVars>>

\* process_query up to its return or its POST.
RouteQuery ==
    /\ rpc = "routing"
    /\ router = "process_query"
    /\ \E found \in (IF Truthy(routing_result.routing.agent)
                       THEN get_agent_by_name(routing_result.routing.agent[1])
                       ELSE {None}) :
         LET o == ProcessQueryRouted(routing_result, context, found) IN
         /\ envelope' = o.envelope
         /\ selected' = o.selected
         /\ lookups' = lookups + o.lookups
         /\ resolutions' = resolutions + o.resolutions
         /\ posts' = IF o.post = None THEN posts ELSE Append(posts, o.post[1])
         /\ rpc' = IF o.post = None THEN "done" ELSE "dispatching"
    /\ UNCHANGED <<router, registry, filesystem, turn, routing_result, context, config,
                   executorVars, pipelineVars, mergeVars, callVars>>

\* _call_agent, lines 245-257: the dictionary an except branch returns.
call_agent_failure(f) ==
    [status |-> "FAILED",
     errors |-> <<<<IF f.http THEN "HTTP error: " ELSE "Unexpected error: ", f.msg>>>>]

\* _call_agent returns, with the agent's JSON or with the dictionary of its
\* except branches; lines 103-104 store it and set SUCCESS.
QueryAgentReturns ==
    /\ rpc = "dispatching"
    /\ router = "process_query"
    /\ \/ \E reply \in AgentReplies :
            /\ envelope' = [envelope EXCEPT !.execution_result = <<reply>>,
                                            !.status = "SUCCESS"]
            /\ posts' = [posts EXCEPT ![Len(posts)].outcome = "ok"]
       \/ \E f \in DispatchFaults :
            /\ envelope' = [envelope EXCEPT !.execution_result = <<call_agent_failure(f)>>,
                                            !.status = "SUCCESS"]
            /\ posts' = [posts EXCEPT ![Len(posts)].outcome = f.kind]
    /\ rpc' = "done"
    /\ UNCHANGED <<router, registry, filesystem, turn, routing_result, context, selected,
                   lookups, resolutions, config, executorVars, pipelineVars, mergeVars, callVars>>

\* The envelope has been returned to the caller; the next request of the
\* session starts from a fresh result dictionary.
Respond ==
    /\ rpc = "done"
    /\ rpc' = "idle"
    /\ routing_result' = [type |-> "error", response |-> "", routing |-> NoRouting]
    /\ context' = None
    /\ envelope' = NewEnvelope
    /\ selected' = None
    /\ posts' = <<>>
    /\ lookups' = 0
    /\ resolutions' = 0
    /\ UNCHANGED <<router, registry, filesystem, turn, config, executorVars, pipelineVars,
                   mergeVars, callVars>>

RouterInit ==
    /\ router \in Routers
    /\ registry \in IF router = "process"
                      THEN SeqsUpTo(Registrations, MaxRegistrations) \ {<<>>}
                      ELSE SeqsUpTo(AgentRows, MaxRegistrations)
    /\ filesystem \in [BasePaths -> Directories]
    /\ turn = 0
    /\ rpc = "idle"
    /\ routing_result = [type |-> "error", response |-> "", routing |-> NoRouting]
    /\ context = None
    /\ envelope = NewEnvelope
    /\ selected = None
    /\ posts = <<>>
    /\ lookups = 0
    /\ resolutions = 0
    /\ config = parse_config(DefaultMaxRetries, DefaultRetryDelaySeconds,
                             DefaultRetryBackoffMultiplier, TRUE)
    /\ task = [u \in Units |-> DocumentTask]
    /\ upc = [u \in Units |-> "idle"]
    /\ IdleExecutor
    /\ IdlePipeline
    /\ IdleMerge
    /\ IdleCall

RouterNext ==
    \/ Receive
    \/ RepiFails
    \/ Route
    \/ AgentReturns
    \/ AgentFails
    \/ RouteQuery
    \/ QueryAgentReturns
    \/ Respond

RouterSpec == RouterInit /\ [][RouterNext]_vars

\* ------------------------------------------------- the payload builders
\* _build_agent_payload and _build_payload called on their own, over every
\* payload mapping of up to MaxKeys keys.
MaxKeys == 2
PayloadKeyNames == <<"excel_path", "client", "mode", "parallel">>
PayloadKeys ==
    {PayloadKeyNames[i] :
        i \in 1..(IF MaxKeys < Len(PayloadKeyNames) THEN MaxKeys ELSE Len(PayloadKeyNames))}

\* Values a payload mapping can hold: a non-string, references to resolved
\* files (one of them also holding a placeholder), templates (one naming a
\* parameter that is never extracted) and literals.
MappingValues ==
    {JsonTrue,
     Str(<<"resolved_", "excel", "_path">>),
     Str(<<"resolved_", "template", "_path">>),
     Str(<<"resolved_", "{client_name}", "_path">>),
     Str(<<"{client_name}", " W", "{wave_number}">>),
     Str(<<"{provider}">>),
     Str(<<"notify">>),
     Str(<<"my_", "resolved_", "excel", "_path">>)}

PayloadMappings ==
    UNION {[keys -> MappingValues] : keys \in SUBSET PayloadKeys}

ResolvedPath == <<"in/a", "/", "CEP", " W", "6", " REPORT", ".xlsx">>
ResolvedMaps ==
    {<<>>,
     ("excel" :> <<ResolvedPath>>),
     ("excel" :> None),
     ("excel" :> <<ResolvedPath>>) @@ ("template" :> <<<<"in/a", "/", "T", ".docx">>>>),
     ("excel" :> <<ResolvedPath>>) @@ ("template" :> None)}

ExtractedParams ==
    {[client_name |-> c, wave_number |-> "6", agent_name |-> "opn", subagent_name |-> sa] :
        c \in {"", "CEP"}, sa \in {"", "group"}}

\* agent_config.get("payload_mapping", {}) / agent.payload_mapping
MappingOf(c) == IF c.mapping = None THEN <<>> ELSE c.mapping[1]

\* Orchestrator._build_agent_payload: value.format(**params) raises KeyError
\* out of the function when a placeholder names no parameter.
BuildAgentPayload ==
    /\ call.fn = "_build_agent_payload"
    /\ returned = None
    /\ returned' =
         IF UnformattableKeys(MappingOf(call), call.params) # {}
           THEN <<[raised |-> TRUE, payload |-> <<>>]>>
           ELSE <<[raised |-> FALSE,
                   payload |-> build_agent_payload([payload_mapping |-> MappingOf(call)],
                                                   call.resolved_files, call.params)]>>
    /\ UNCHANGED <<call, disk, config, executorVars, pipelineVars, mergeVars, routerVars>>

\* _build_payload of the orchestration service: never raises.
BuildPayload ==
    /\ call.fn = "_build_payload"
    /\ returned = None
    /\ returned' = <<[raised |-> FALSE,
                      payload |-> build_payload([payload_mapping |-> call.mapping],
                                                call.params, call.resolved_files)]>>
    /\ UNCHANGED <<call, disk, config, executorVars, pipelineVars, mergeVars, routerVars>>

PayloadInit ==
    /\ call \in [fn : {"_build_agent_payload", "_build_payload"},
                  mapping : {None} \cup {<<m>> : m \in PayloadMappings},
                  resolved_files : ResolvedMaps,
                  params : ExtractedParams]
    /\ returned = None
    /\ disk = <<>>
    /\ config = parse_config(DefaultMaxRetries, DefaultRetryDelaySeconds,
                             DefaultRetryBackoffMultiplier, TRUE)
    /\ task = [u \in Units |-> DocumentTask]
    /\ upc = [u \in Units |-> "idle"]
    /\ IdleExecutor
    /\ IdlePipeline
    /\ IdleMerge
    /\ IdleRouter

PayloadNext ==
    \/ BuildAgentPayload
    \/ BuildPayload

PayloadSpec == PayloadInit /\ [][PayloadNext]_vars

\* ------------------------------------------------------ the file resolver
\* FileResolver.resolve_files called on its own, over every directory of up
\* to MaxFiles files in every order glob can list it.
MaxFiles == 3
InputFiles ==
    {ExcelFile, TemplateFile,
     <<"CEP", " W", "6", " FINAL", ".xlsx">>,
     <<"CEP", " W", "7", " REPORT", ".xlsx">>,
     <<"OpenNeg_", "Template", "_v2", ".docx">>,
     <<"notes", ".txt">>}

ResolveFiles ==
    /\ call.fn = "resolve_files"
    /\ returned = None
    /\ returned' = <<resolve_files_listed(call.base_path, call.listing, call.client_name,
                                          call.wave_number, call.patterns)>>
    /\ UNCHANGED <<call, disk, config, executorVars, pipelineVars, mergeVars, routerVars>>

ResolveInit ==
    /\ \E directory \in {d \in SUBSET InputFiles : Cardinality(d) <= MaxFiles} :
         call \in [fn : {"resolve_files"},
                   base_path : {"in/a"},
                   listing : Listings(directory),
                   client_name : {"CEP", "ACME"},
                   wave_number : {"6", "7"},
                   patterns : {<<>>, <<"excel">>, <<"excel", "template">>}]
    /\ returned = None
    /\ disk = <<>>
    /\ config = parse_config(DefaultMaxRetries, DefaultRetryDelaySeconds,
                             DefaultRetryBackoffMultiplier, TRUE)
    /\ task = [u \in Units |-> DocumentTask]
    /\ upc = [u \in Units |-> "idle"]
    /\ IdleExecutor
    /\ IdlePipeline
    /\ IdleMerge
    /\ IdleRouter

ResolveNext == ResolveFiles

ResolveSpec == ResolveInit /\ [][ResolveNext]_vars

\* ------------------------------------------------------- the folder merge
\* MergeAgent._merge_folders, one file of the walk at a time. A file is
\* [rel, stem, ext, content]: the subfolder relative to its tree, the pieces
\* of its name before the extension, the extension, and what it holds; a
\* path under the output folder is <<rel, stem, ext>>.
MaxTreeFiles == 2
ALLOWED_EXTENSIONS == {".xls", ".xlsx", ".doc", ".docx", ".pdf"}

\* f"_{counter}" for counter = 1, 2, ...
CounterSuffixes == <<"_1", "_2", "_3", "_4", "_5", "_6", "_7", "_8", "_9", "_10">>

SourceNames ==
    {[rel |-> r, stem |-> n.stem, ext |-> n.ext] :
        r \in {".", "a"},
        n \in {[stem |-> <<"x">>, ext |-> ".docx"],
               [stem |-> <<"x", "_1">>, ext |-> ".docx"],
               [stem |-> <<"y">>, ext |-> ".txt"]}}

\* The files of one generation tree, in the order os.walk yields them.
TreeWalks(content) ==
    UNION {Listings({[rel |-> n.rel, stem |-> n.stem, ext |-> n.ext, content |-> content] :
                        n \in names}) :
             names \in {ns \in SUBSET SourceNames : Cardinality(ns) <= MaxTreeFiles}}

\* What an earlier run can have left under the output folder.
EarlierPaths ==
    {<<".", <<"x">>, ".docx">>, <<".", <<"x", "_1">>, ".docx">>, <<"a", <<"x">>, ".docx">>}

\* _safe_copy, lines 539-546: the first name that does not exist.
RECURSIVE next_free(_, _, _, _, _)
next_free(files, rel, base, ext, counter) ==
    LET final_path == <<rel, Append(base, CounterSuffixes[counter]), ext>> IN
    IF final_path \in DOMAIN files
      THEN next_free(files, rel, base, ext, counter + 1)
      ELSE final_path

final_path_overwriting(files, rel, base, ext) == <<rel, base, ext>>

final_path(files, rel, base, ext) ==
    IF <<rel, base, ext>> \in DOMAIN files
      THEN next_free(files, rel, base, ext, 1)
      ELSE <<rel, base, ext>>

\* shutil.copy2(src_path, final_path)
safe_copy(files, src) ==
    (final_path(files, src.rel, src.stem, src.ext) :> src.content) @@ files

\* An allowed file is copied.
CopyFile ==
    /\ call.fn = "_merge_folders"
    /\ call.pending # <<>>
    /\ Head(call.pending).ext \in ALLOWED_EXTENSIONS
    /\ disk' = safe_copy(disk, Head(call.pending))
    /\ call' = [call EXCEPT !.pending = Tail(@),
                            !.stats.total_records = @ + 1,
                            !.stats.successful = @ + 1,
                            !.stats.output_files =
                                Append(@, final_path(disk, Head(call.pending).rel,
                                                     Head(call.pending).stem,
                                                     Head(call.pending).ext))]
    /\ UNCHANGED <<returned, config, executorVars, pipelineVars, mergeVars, routerVars>>

\* shutil.copy2 raises: the failure is counted and the walk goes on.
CopyFails ==
    /\ call.fn = "_merge_folders"
    /\ call.pending # <<>>
    /\ Head(call.pending).ext \in ALLOWED_EXTENSIONS
    /\ call' = [call EXCEPT !.pending = Tail(@),
                            !.stats.total_records = @ + 1,
                            !.stats.failed = @ + 1,
                            !.stats.errors = Append(@, "Failed to copy")]
    /\ UNCHANGED <<disk, returned, config, executorVars, pipelineVars, mergeVars, routerVars>>

\* A file whose extension is not allowed is passed over.
SkipFile ==
    /\ call.fn = "_merge_folders"
    /\ call.pending # <<>>
    /\ Head(call.pending).ext \notin ALLOWED_EXTENSIONS
    /\ call' = [call EXCEPT !.pending = Tail(@)]
    /\ UNCHANGED <<disk, returned, config, executorVars, pipelineVars, mergeVars, routerVars>>

\* `return stats`
MergeReturns ==
    /\ call.fn = "_merge_folders"
    /\ call.pending = <<>>
    /\ returned = None
    /\ returned' = <<call.stats>>
    /\ UNCHANGED <<call, disk, config, executorVars, pipelineVars, mergeVars, routerVars>>

\* folder1 is walked before folder2; a missing folder is one without files.
MergeFoldersInit ==
    /\ \E folder1 \in TreeWalks("group"), folder2 \in TreeWalks("notice"),
          earlier \in SUBSET EarlierPaths :
         /\ disk = [path \in earlier |-> "earlier"]
         /\ call = [fn |-> "_merge_folders", pending |-> folder1 \o folder2,
                    initial |-> [path \in earlier |-> "earlier"],
                    stats |-> GenerationStats]
    /\ returned = None
    /\ config = parse_config(DefaultMaxRetries, DefaultRetryDelaySeconds,
                             DefaultRetryBackoffMultiplier, TRUE)
    /\ task = [u \in Units |-> DocumentTask]
    /\ upc = [u \in Units |-> "idle"]
    /\ IdleExecutor
    /\ IdlePipeline
    /\ IdleMerge
    /\ IdleRouter

MergeFoldersNext ==
    \/ CopyFile
    \/ CopyFails
    \/ SkipFile
    \/ MergeReturns

MergeFoldersSpec == MergeFoldersInit /\ [][MergeFoldersNext]_vars

\* =================================================================== claims
\* C1 (RetrySpec): in every state reached while execute_with_retry runs a task,
\* whatever the budget, the initial count and the stage outcomes, the task's
\* retry_count never exceeds its max_retries.
C1_RetryCountBounded ==
    \A u \in Units : task[u].retry_count <= task[u].max_retries

\* A task whose counter was incremented up to a positive ceiling.
C1_Witness ==
    /\ task["group"].max_retries > 0
    /\ task["group"].retry_count = task["group"].max_retries
    /\ Len(sleeps["group"]) > 0

\* C2 (RetrySpec): whenever execute_with_retry returns because the budget is
\* exhausted, the returned task is Failed and its error_message is a
\* non-empty string.
C2_ExhaustedHasMessage ==
    \A u \in Units :
        exit[u] = "exhausted" =>
            /\ task[u].status = "failed"
            /\ task[u].error_message # None
            /\ task[u].error_message[1] # ""

\* C3 (RetrySpec): the delay slept before retry n, n being the retry_count
\* right after increment_retry, is retry_delay_seconds *
\* retry_backoff_multiplier^(n-1), on the Failed path and on the fault path:
\* the i-th of k sleeps of a task now at retry_count c was slept at
\* n = c - k + i.
C3_BackoffFromPostIncrement ==
    \A u \in Units : \A i \in 1..Len(sleeps[u]) :
        LET n == task[u].retry_count - Len(sleeps[u]) + i IN
        /\ n >= 1
        /\ sleeps[u][i] =
              config.retry_delay_seconds * (config.retry_backoff_multiplier ^ (n - 1))

\* Base 1 and multiplier 2 give 1, 2, 4 for n = 1, 2, 3, with a fault among
\* the failed attempts.
C3_Witness ==
    /\ config.retry_delay_seconds = 1
    /\ config.retry_backoff_multiplier = 2
    /\ sleeps["group"] = <<1, 2, 4>>
    /\ task["group"].retry_count = 3
    /\ last_error["group"] # None

\* C4 (RetrySpec): a result that is Completed, or in any status other than
\* Failed, is returned at once: the executor's next step is the return, with
\* the task, the number of invocations and the sleeps unchanged, and nothing
\* changes after the return; a backoff sleep is only ever started from a
\* Failed result or a raised fault.
C4_ReturnsAtOnce ==
    [][\A u \in Units :
         /\ (upc[u] = "returned" /\ task[u].status # "failed" /\ upc'[u] # upc[u]) =>
                /\ upc'[u] = "done"
                /\ task'[u] = task[u]
                /\ invocations'[u] = invocations[u]
                /\ sleeps'[u] = sleeps[u]
         /\ upc[u] = "done" =>
                /\ upc'[u] = "done"
                /\ task'[u] = task[u]
                /\ invocations'[u] = invocations[u]
                /\ sleeps'[u] = sleeps[u]
         /\ sleeps'[u] # sleeps[u] =>
                \/ upc[u] = "raised"
                \/ upc[u] = "returned" /\ task[u].status = "failed"
      ]_vars

\* A PartialFailure result returned as it is, after one invocation, no sleep.
C4_Witness ==
    /\ upc["group"] = "done"
    /\ exit["group"] = "as_is"
    /\ task["group"].status = "partial_failure"
    /\ invocations["group"] = 1
    /\ sleeps["group"] = <<>>

\* C5 (Spec): the generation tasks' retry ceiling is the max_retries the
\* pipeline was configured with, so a unit that fails on every attempt has used
\* exactly that budget when it is returned Failed.
C5_ConfiguredCeiling ==
    pc \in {"generating", "merging"} =>
        \A u \in Units :
            /\ task[u].max_retries = config.max_retries
            /\ exit[u] = "exhausted" =>
                  /\ task[u].status = "failed"
                  /\ task[u].retry_count = config.max_retries

\* C6 (Spec): the stages run in the order validate, generation, merge: no
\* generation attempt before the validator has returned, the merger is called
\* only after both generators have returned, and the validator and the merger
\* are each called at most once.
C6_StageOrder ==
    /\ calls.validator <= 1
    /\ calls.merger <= 1
    /\ \A u \in Units :
          (invocations[u] > 0 \/ upc[u] # "idle") =>
              /\ calls.validator = 1
              /\ validation_task.status \in {"completed", "partial_failure"}
    /\ calls.merger > 0 =>
          /\ calls.validator = 1
          /\ \A u \in Units : upc[u] = "done" /\ exit[u] # "none"
    /\ pc = "validating" => calls.validator = 1
    /\ pc = "merging" => calls.merger = 1

\* A finished run in which every stage ran, the generators with retries.
C6_Witness ==
    /\ pc = "done"
    /\ calls = [validator |-> 1, merger |-> 1]
    /\ invocations["group"] > 1
    /\ invocations["notice"] > 1
    /\ merge_task.status = "completed"

\* C7 (Spec): when the validator returns Failed the run ends FAILED with a
\* validation error in errors, and no generator and no merger is ever called.
C7_ValidationShortCircuit ==
    validation_task.status = "failed" =>
        /\ pc = "done"
        /\ result.status = "FAILED"
        /\ \E e \in Range(result.errors) :
              e \in {"Validation failed: ", "Validation failed: boom",
                     "Validation failed: Validation failed: ['Excel file not found: data.xlsx']"}
        /\ \A u \in Units : invocations[u] = 0 /\ upc[u] = "idle"
        /\ calls.merger = 0

C7_Witness ==
    /\ validation_task.status = "failed"
    /\ pc = "done"
    /\ result.completed_at

\* The statistics a returned generation task carries (zero when it has none).
ReportedTotal(u) == IF task[u].stats = None THEN 0 ELSE task[u].stats[1].total_records
ReportedSuccessful(u) == IF task[u].stats = None THEN 0 ELSE task[u].stats[1].successful

\* Generation has been aggregated into the outcome.
Aggregated == result.stats # None

\* C8 (Spec): after generation the run ends FAILED without calling the merger
\* if and only if the two units together report successful = 0 and
\* total_records > 0; when they report total_records = 0, Failed units
\* included, the merger is called.
C8_AllFailedShortCircuit ==
    Aggregated =>
        LET allFailed ==
                /\ ReportedSuccessful("group") + ReportedSuccessful("notice") = 0
                /\ ReportedTotal("group") + ReportedTotal("notice") > 0 IN
        /\ allFailed <=> calls.merger = 0
        /\ allFailed => /\ pc = "done"
                        /\ result.status = "FAILED"
                        /\ "All document generation failed" \in Range(result.errors)
        /\ ~allFailed => /\ calls.merger = 1
                         /\ result.status # "FAILED"

\* Both units returned Failed, reporting nothing, and the merger was called.
C8_Witness ==
    /\ Aggregated
    /\ \A u \in Units : task[u].status = "failed" /\ ReportedTotal(u) = 0
    /\ calls.merger = 1

\* C9 (Spec): when a generation unit returned Failed or PartialFailure, the
\* final status is not SUCCESS: it is PARTIAL_FAILURE, or FAILED by the
\* all-failed short-circuit, and the unit's message is in errors (Failed) or in
\* warnings (PartialFailure).
C9_FailureNeverSwallowed ==
    (pc = "done" /\ Aggregated) =>
        \A u \in Units :
            task[u].status \in {"failed", "partial_failure"} =>
                /\ result.status # "SUCCESS"
                /\ \/ result.status = "PARTIAL_FAILURE"
                   \/ /\ result.status = "FAILED"
                      /\ calls.merger = 0
                      /\ ReportedSuccessful("group") + ReportedSuccessful("notice") = 0
                /\ task[u].error_message # None
                /\ task[u].status = "failed" =>
                      task[u].error_message[1] \in Range(result.errors)
                /\ task[u].status = "partial_failure" =>
                      task[u].error_message[1] \in Range(result.warnings)

\* One unit PartialFailure, the other Completed, the run finalized after merge.
C9_Witness ==
    /\ pc = "done"
    /\ calls.merger = 1
    /\ task["group"].status = "partial_failure"
    /\ task["notice"].status = "completed"
    /\ result.status = "PARTIAL_FAILURE"

\* C10 (Spec): at the end of a run in which a generation unit reported failure
\* or partial failure, the status is PARTIAL_FAILURE only if at least one
\* record was generated, and FAILED otherwise.
C10_PartialNeedsOutput ==
    (pc = "done" /\ Aggregated /\ has_failures) =>
        IF result.stats[1].successful > 0
          THEN result.status = "PARTIAL_FAILURE"
          ELSE result.status = "FAILED"

\* C11 (Spec): a Failed merge stage is never a hard failure. When the merger
\* has run and the pipeline is done, the final status is SUCCESS or
\* PARTIAL_FAILURE exactly as the two generation results decide; a Failed merge
\* leaves a "Merge failed" warning as the last warning and no output_folder;
\* and output_folder is set in no state unless the merger ran and its task is
\* Completed.
C11_MergeFailureIsWarning ==
    /\ result.output_folder # None =>
          calls.merger = 1 /\ merge_task.status = "completed"
    /\ (pc = "done" /\ calls.merger = 1) =>
          /\ result.status =
                IF \E u \in Units : task[u].status \in {"failed", "partial_failure"}
                  THEN "PARTIAL_FAILURE" ELSE "SUCCESS"
          /\ merge_task.status = "failed" =>
                /\ result.warnings # <<>>
                /\ result.warnings[Len(result.warnings)] \in
                      {"Merge failed: ", "Merge failed: boom",
                       "Merge failed: Missing required folder paths"}
                /\ result.output_folder = None
          /\ merge_task.status # "failed" =>
                /\ result.output_folder = document_config.merged_output_folder
                /\ result.output_folder # None

C11_Witness ==
    /\ pc = "done"
    /\ calls.merger = 1
    /\ merge_task.status = "failed"
    /\ result.status = "SUCCESS"
    /\ result.output_folder = None

ReportedFailed(u) == IF task[u].stats = None THEN 0 ELSE task[u].stats[1].failed
ReportedSkipped(u) == IF task[u].stats = None THEN 0 ELSE task[u].stats[1].skipped
ReportedErrors(u) == IF task[u].stats = None THEN <<>> ELSE task[u].stats[1].errors

\* C12 (Spec): once the generation results are aggregated, both units have been
\* invoked and have left execute_with_retry, neither was cancelled, in parallel
\* and in sequential mode, and the outcome's counts are the sums over both
\* units, whatever the status of the other unit.
C12_SiblingAlwaysRuns ==
    Aggregated =>
        /\ \A u \in Units :
              /\ upc[u] = "done"
              /\ exit[u] # "none"
              /\ invocations[u] >= 1
              /\ task[u].status # "cancelled"
        /\ result.stats[1].total_records = ReportedTotal("group") + ReportedTotal("notice")
        /\ result.stats[1].successful =
              ReportedSuccessful("group") + ReportedSuccessful("notice")
        /\ result.stats[1].failed = ReportedFailed("group") + ReportedFailed("notice")
        /\ result.stats[1].skipped = ReportedSkipped("group") + ReportedSkipped("notice")

C12_Witness ==
    /\ Aggregated
    /\ ~config.enable_parallel_processing
    /\ task["group"].status = "failed"
    /\ exit["group"] = "exhausted"
    /\ ReportedSuccessful("notice") > 0
    /\ result.stats[1].successful > 0

\* The error (wanted = "failed") or warning (wanted = "partial_failure") one
\* unit's final task contributes to the outcome.
UnitMessage(u, wanted, default) ==
    IF task[u].status = wanted
      THEN <<IF task[u].error_message # None /\ task[u].error_message[1] # ""
               THEN task[u].error_message[1] ELSE default>>
      ELSE <<>>

\* C13 (Spec): the aggregate is a function of the two units' final tasks alone,
\* group first and notice second, whatever the order the units completed in and
\* whatever the mode: the counts are the sums, the statistics' errors are the
\* group's followed by the notice's, the outcome's errors and warnings carry
\* the units' messages in that same order, and the final status follows from
\* the sums and the two statuses.
C13_OrderIndependentAggregate ==
    Aggregated =>
        LET total == ReportedTotal("group") + ReportedTotal("notice")
            good == ReportedSuccessful("group") + ReportedSuccessful("notice")
            unitErrors == UnitMessage("group", "failed", "Generation failed")
                          \o UnitMessage("notice", "failed", "Generation failed")
            unitWarnings == UnitMessage("group", "partial_failure", "Partial failure")
                            \o UnitMessage("notice", "partial_failure", "Partial failure")
            allFailed == good = 0 /\ total > 0
        IN
        /\ result.stats[1] =
              [total_records |-> total,
               successful |-> good,
               failed |-> ReportedFailed("group") + ReportedFailed("notice"),
               skipped |-> ReportedSkipped("group") + ReportedSkipped("notice"),
               output_files |-> <<>>,
               errors |-> ReportedErrors("group") \o ReportedErrors("notice")]
        /\ result.errors =
              unitErrors \o (IF allFailed THEN <<"All document generation failed">>
                                          ELSE <<>>)
        /\ \E w \in {<<>>, <<"1 duplicate claim numbers found">>} :
             \E m \in {<<>>, <<"Merge failed: ">>, <<"Merge failed: boom">>,
                       <<"Merge failed: Missing required folder paths">>} :
                result.warnings = w \o unitWarnings \o m
        /\ pc = "done" =>
              result.status = IF allFailed THEN "FAILED"
                              ELSE IF \E u \in Units :
                                        task[u].status \in {"failed", "partial_failure"}
                                     THEN "PARTIAL_FAILURE" ELSE "SUCCESS"

\* The notice unit completed before the group unit, and both left a warning.
C13_Witness ==
    /\ Aggregated
    /\ config.enable_parallel_processing
    /\ order = <<"notice", "group">>
    /\ \A u \in Units : task[u].status = "partial_failure"
    /\ pc = "done"

\* C14 (MergeSpec): merge is associative. For all operands A, B, C with counts
\* in 0..MaxStat, merge(merge(A,B),C) and merge(A,merge(B,C)) are equal on
\* total_records, successful, failed, skipped, output_files and errors.
C14_MergeAssociative ==
    merged.identity = "associate" =>
        /\ merged.lhs.total_records = merged.rhs.total_records
        /\ merged.lhs.successful = merged.rhs.successful
        /\ merged.lhs.failed = merged.rhs.failed
        /\ merged.lhs.skipped = merged.rhs.skipped
        /\ merged.lhs.output_files = merged.rhs.output_files
        /\ merged.lhs.errors = merged.rhs.errors

\* Three operands with records, files and errors of their own, one of them
\* with errors and no records.
C14_Witness ==
    /\ merged.identity = "associate"
    /\ operands.B.total_records = 0
    /\ merged.lhs.errors = <<"A", "B", "C">>
    /\ merged.lhs.output_files = <<"A", "B", "C">>
    /\ merged.lhs.total_records = 2

\* C15 as stated (MergeSpec): merge(A,B) equals merge(B,A) on every field,
\* the output_files and errors lists included.
C15_MergeCommutative ==
    merged.identity = "commute" => merged.lhs = merged.rhs

Occurrences(seq, x) == Cardinality({i \in 1..Len(seq) : seq[i] = x})
SameEntries(p, q) ==
    /\ Len(p) = Len(q)
    /\ \A x \in Range(p) \cup Range(q) : Occurrences(p, x) = Occurrences(q, x)

\* C15 amended (MergeSpec): merge(A,B) and merge(B,A) are equal on the four
\* counts, and their output_files and errors lists hold the same entries the
\* same number of times; as lists each is the first operand's followed by the
\* second's, so the two sides are equal lists only when these two
\* concatenations coincide.
C15_MergeCommutativeOnCounts ==
    merged.identity = "commute" =>
        /\ merged.lhs.total_records = merged.rhs.total_records
        /\ merged.lhs.successful = merged.rhs.successful
        /\ merged.lhs.failed = merged.rhs.failed
        /\ merged.lhs.skipped = merged.rhs.skipped
        /\ SameEntries(merged.lhs.output_files, merged.rhs.output_files)
        /\ SameEntries(merged.lhs.errors, merged.rhs.errors)
        /\ merged.lhs.errors = operands.A.errors \o operands.B.errors
        /\ merged.rhs.errors = operands.B.errors \o operands.A.errors
        /\ merged.lhs.output_files = operands.A.output_files \o operands.B.output_files
        /\ merged.rhs.output_files = operands.B.output_files \o operands.A.output_files

C15_Witness ==
    /\ merged.identity = "commute"
    /\ merged.lhs.errors = <<"A", "B">>
    /\ merged.rhs.errors = <<"B", "A">>
    /\ merged.lhs.skipped = 1
    /\ operands.A.skipped # operands.B.skipped

\* The classifier's output as the finished request's envelope records it.
Decision == envelope.routing_decision[1]
Classified == rpc = "done" /\ envelope.routing_decision # None

\* C16 (RouterSpec): a request whose classifier output is of type
\* clarification, confirmation, agent_inquiry or invalid_query ends, on every
\* turn and under both implementations, with no registry lookup, no file
\* resolution and no dispatch POST, with status AWAITING_USER_INPUT and with
\* the classifier's response text as the message.
C16_PassThrough ==
    (Classified /\ Decision.type \in
        {"clarification", "confirmation", "agent_inquiry", "invalid_query"}) =>
        /\ lookups = 0
        /\ resolutions = 0
        /\ selected = None
        /\ posts = <<>>
        /\ envelope.status = "AWAITING_USER_INPUT"
        /\ "message" \in DOMAIN envelope
        /\ envelope.message = <<Decision.response>>
        /\ envelope.errors = <<>>
        /\ envelope.execution_result = None

C16_Witness ==
    /\ Classified
    /\ router = "process"
    /\ turn = 2
    /\ Decision.type = "invalid_query"
    /\ Decision.response = "Which client?"
    /\ envelope.status = "AWAITING_USER_INPUT"
    /\ envelope.message = <<"Which client?">>

\* C17 as stated (RouterSpec): whenever a dispatch POST has been sent, every
\* required parameter of the selected registration was extracted non-empty,
\* every file type it requires resolved to a path, and no value of the
\* dispatched payload is null.
C17_NoDispatchWithMissingInput ==
    \A i \in 1..Len(posts) :
        /\ \A k \in DOMAIN posts[i].payload : posts[i].payload[k].type # "null"
        /\ router = "process" =>
              /\ \A p \in Range(selected[1].file_resolution.required_params) :
                    Decision.routing[p] # ""
              /\ selected[1].file_resolution.enabled =>
                    \A ft \in Range(selected[1].file_resolution.patterns) :
                        /\ ft \in DOMAIN envelope.file_resolution[1]
                        /\ envelope.file_resolution[1][ft] # None

\* C18 as stated (RouterSpec): a request whose dispatch POST ended in a
\* transport fault, a timeout or a non-2xx response is returned with status
\* FAILED and a non-empty errors list.
C18_DispatchFaultFails ==
    (rpc = "done" /\ posts # <<>>
     /\ posts[Len(posts)].outcome \in {"transport", "timeout", "status"}) =>
        /\ envelope.status = "FAILED"
        /\ envelope.errors # <<>>

\* C19 (RouterSpec): at most one dispatch POST is sent for a request, under
\* both implementations and whatever the POST ended in; a request whose POST
\* failed finishes with that one POST.
C19_AtMostOnePost ==
    /\ Len(posts) <= 1
    /\ (posts # <<>> /\ posts[1].outcome \notin {"pending", "ok"}) => rpc = "done"

C19_Witness ==
    /\ rpc = "done"
    /\ router = "process"
    /\ Len(posts) = 1
    /\ posts[1].outcome = "timeout"
    /\ envelope.status = "FAILED"

\* The name and the subagent name a registration carries (a row of the agents
\* table carries no subagent name).
NameOf(reg) == IF "agent_name" \in DOMAIN reg THEN reg.agent_name ELSE reg.name
SubagentOf(reg) == IF "subagent_name" \in DOMAIN reg THEN reg.subagent_name ELSE None

\* C20 as stated (RouterSpec): on a routing decision the registration selected
\* has exactly the decision's agent name and, when the decision names a
\* subagent, exactly that subagent name; a decision no registration matches
\* in this way ends FAILED with no dispatch.
C20_ExactRegistrationMatch ==
    (Classified /\ Decision.type = "routing" /\ Decision.routing.parsed) =>
        LET d == Decision.routing
            exact(reg) == /\ d.agent = <<NameOf(reg)>>
                          /\ (d.subagent # None /\ d.subagent # <<"">>) =>
                                SubagentOf(reg) = d.subagent
        IN
        /\ selected # None => exact(selected[1])
        /\ (\A i \in 1..Len(registry) : ~exact(registry[i])) =>
              /\ envelope.status = "FAILED"
              /\ posts = <<>>


\* C21: the built payload has exactly the keys of the registration's payload
\* mapping, each resolved by the first applicable rule: a non-string value is
\* copied unchanged; a resolved-file reference yields the resolved path of
\* that file type; a string with a {param} placeholder yields the template
\* with the extracted parameters substituted; any other string is copied.
Built == returned # None /\ ~returned[1].raised
ExpectedEntry(value, resolved_files, params, entry) ==
    IF value.type # "str" THEN entry = value
    ELSE IF Len(value.text) > 0 /\ value.text[1] = "resolved_"
      THEN LET file_type == FileTypeOf(value.text) IN
           IF Len(file_type) = 1 /\ file_type[1] \in DOMAIN resolved_files
                /\ resolved_files[file_type[1]] # None
             THEN entry = Str(resolved_files[file_type[1]][1])
             ELSE entry = JsonNull
    ELSE IF \E i \in 1..Len(value.text) : value.text[i] \in Placeholders
      THEN /\ Formattable(value.text, params)
           /\ entry = Str(format(value.text, params))
    ELSE entry = value
C21_PayloadRules ==
    Built =>
        /\ DOMAIN returned[1].payload = DOMAIN MappingOf(call)
        /\ \A k \in DOMAIN MappingOf(call) :
               ExpectedEntry(MappingOf(call)[k], call.resolved_files, call.params,
                             returned[1].payload[k])

\* C22: a payload-mapping template that references a parameter not among the
\* extracted parameters is a hard failure: the request ends FAILED, no
\* dispatch POST is sent, and the reported error names the offending
\* payload-mapping key.
SelectedMapping ==
    IF router = "process" THEN selected[1].payload_mapping
    ELSE IF selected[1].payload_mapping = None THEN <<>>
    ELSE selected[1].payload_mapping[1]
BrokenKeys == UnformattableKeys(SelectedMapping, [p \in ParamNames |-> ""])
Names(error, key) == \E j \in 1..Len(error) : error[j] = key
C22_UnresolvableTemplateFails ==
    (rpc = "done" /\ selected # None /\ BrokenKeys # {}) =>
        /\ posts = <<>>
        /\ envelope.status = "FAILED"
        /\ \E i \in 1..Len(envelope.errors) :
               \E k \in BrokenKeys : Names(envelope.errors[i], k)

\* C23: resolve_files returns exactly one entry per configured pattern key;
\* the entry is None if and only if no file under the base path matches the
\* substituted pattern, and otherwise it is the absolute path of the
\* lexicographically first matching file.
SortedFiles ==
    <<(<<"CEP", " W", "6", " FINAL", ".xlsx">>),
      (<<"CEP", " W", "6", " REPORT", ".xlsx">>),
      (<<"CEP", " W", "7", " REPORT", ".xlsx">>),
      (<<"OpenNeg_", "Template", ".docx">>),
      (<<"OpenNeg_", "Template", "_v2", ".docx">>),
      (<<"notes", ".txt">>)>>
Rank(f) == CHOOSE i \in 1..Len(SortedFiles) : SortedFiles[i] = f
Matching(file_type) ==
    {f \in Range(call.listing) :
        GlobMatches(file_type, call.client_name, call.wave_number, f)}
LexicallyFirst(files) == CHOOSE f \in files : \A g \in files : Rank(f) <= Rank(g)
C23_OneEntryPerPattern ==
    (call.fn = "resolve_files" /\ returned # None) =>
        /\ DOMAIN returned[1] = Range(call.patterns)
        /\ \A ft \in Range(call.patterns) :
              /\ returned[1][ft] = None <=> Matching(ft) = {}
              /\ Matching(ft) # {} =>
                    returned[1][ft] =
                        <<(<<call.base_path, "/">> \o LexicallyFirst(Matching(ft)))>>

\* C24: the merge stage never overwrites a file: every file already under the
\* output folder keeps its content, and a copy whose plain name is taken is
\* written under the first free name among name_1.ext, name_2.ext, ..., in
\* the same relative subfolder.
Copying == call.fn = "_merge_folders" /\ DOMAIN disk' # DOMAIN disk
Taken(rel, stem, ext) == <<rel, stem, ext>> \in DOMAIN disk
C24_MergeNeverOverwrites ==
    [][/\ \A path \in DOMAIN disk : path \in DOMAIN disk' /\ disk'[path] = disk[path]
       /\ Copying =>
            LET src == Head(call.pending) IN
            \E path \in DOMAIN disk' :
               /\ DOMAIN disk' = DOMAIN disk \cup {path}
               /\ disk'[path] = src.content
               /\ path[1] = src.rel /\ path[3] = src.ext
               /\ \/ path[2] = src.stem
                  \/ \E k \in 1..Len(CounterSuffixes) :
                        /\ path[2] = Append(src.stem, CounterSuffixes[k])
                        /\ Taken(src.rel, src.stem, src.ext)
                        /\ \A j \in 1..(k - 1) :
                              Taken(src.rel, Append(src.stem, CounterSuffixes[j]), src.ext)]_vars
\* Both trees held x.docx in the same subfolder of an empty output folder:
\* the merge left x.docx from the group tree and x_1.docx from the notice tree.
C24_Witness ==
    /\ call.fn = "_merge_folders"
    /\ returned # None
    /\ call.initial = <<>>
    /\ DOMAIN disk = {<<".", <<"x">>, ".docx">>, <<".", <<"x", "_1">>, ".docx">>}
    /\ disk[<<".", <<"x">>, ".docx">>] = "group"
    /\ disk[<<".", <<"x", "_1">>, ".docx">>] = "notice"
    /\ returned[1].successful = 2

\* C25: once a task's status is Completed or Cancelled it is terminal: no
\* lifecycle operation (mark_in_progress, mark_failed, mark_partial_failure,
\* increment_retry) and no execute or execute_with_retry call on the task
\* changes its status, retry_count or error_message.
Terminal(t) == t.status \in {"completed", "cancelled"}
C25_TerminalStatuses ==
    [][(call.fn = "DocumentTask" /\ Terminal(task["group"])) =>
          /\ task'["group"].status = task["group"].status
          /\ task'["group"].retry_count = task["group"].retry_count
          /\ task'["group"].error_message = task["group"].error_message]_vars

\* C26: every task whose status is Failed or PartialFailure carries a
\* non-empty error_message: the tasks marked by the stage units and by
\* execute_with_retry, and the master task that OrchestratorAgent.execute
\* marks from the errors list of the pipeline's outcome.
Unsuccessful(t) == t.status \in {"failed", "partial_failure"}
NonEmptyJoined(message) ==
    message # None /\ \E i \in 1..Len(message[1]) : message[1][i] # ""
C26_FailedCarriesMessage ==
    /\ \A t \in {task["group"], task["notice"], validation_task, merge_task} :
          Unsuccessful(t) => Truthy(t.error_message)
    /\ Unsuccessful(master_task) => NonEmptyJoined(master_task.error_message)

\* C27: process_document_request never propagates an exception: it ends with a
\* returned outcome; a missing excel_path, or a fault raised while a stage
\* runs, yields status FAILED with the error appended to errors; and for a
\* missing excel_path no stage (validate, generate, merge) is invoked at all.
NoStageInvoked ==
    /\ calls = [validator |-> 0, merger |-> 0]
    /\ \A u \in Units : invocations[u] = 0
    /\ validation_task = DocumentTask /\ merge_task = DocumentTask
Returned == outcome # None /\ outcome[1].status \in {"SUCCESS", "PARTIAL_FAILURE", "FAILED"}
StageFaulted ==
    /\ pc \in {"validating", "merging"}
    /\ pc' = "done"
    /\ UNCHANGED <<validation_task, merge_task>>
SixKeys == {"status", "output_folder", "stats", "errors", "warnings", "duration_seconds"}
C28_SixKeys == outcome # None => SixKeys \subseteq DOMAIN outcome[1]

\* C29: precondition errors fail fast without retry: a generation unit that
\* returns Failed because a required input is missing (template_docx absent
\* for the notice unit, an empty output folder value) is not invoked again
\* and no backoff sleep is performed for it.
C29_PreconditionFailsFast ==
    \A u \in Units :
        (pc \notin {"start", "validating"} /\ ~UnitInputsPresent(u, document_config)) =>
            /\ invocations[u] <= 1
            /\ sleeps[u] = <<>>

\* C30: the two generation units share no mutable state: each runs on its own
\* task, each writes only under its own output folder, and for every
\* configuration the pipeline accepts the two output folders are different
\* trees, so that neither unit can overwrite or observe the other's writes.
UnitsStarted == pc = "generating" /\ \A u \in Units : upc[u] = "loop"
C30_DisjointOutputs ==
    UnitsStarted =>
        document_config.output_group_folder # document_config.output_notice_folder

\* C31 (Spec): when validation passes, both generation units return Completed
\* with no failed record, at least one record was generated, and the merge
\* stage returns Completed, the returned outcome has status SUCCESS, an empty
\* errors list, the merged output folder as output_folder, and total_records
\* and successful equal to the sums of the two units' reports.
CleanRun ==
    /\ pc = "done"
    /\ calls.validator = 1
    /\ validation_task.status # "failed"
    /\ \A u \in Units :
          /\ exit[u] # "none"
          /\ task[u].status = "completed"
          /\ ReportedFailed(u) = 0
    /\ ReportedSuccessful("group") + ReportedSuccessful("notice") >= 1
    /\ merge_task.status = "completed"
C31_EndToEndSuccess ==
    CleanRun =>
        /\ outcome # None
        /\ outcome[1].status = "SUCCESS"
        /\ outcome[1].errors = <<>>
        /\ outcome[1].output_folder = document_config.merged_output_folder
        /\ outcome[1].output_folder # None
        /\ "stats" \in DOMAIN outcome[1]
        /\ outcome[1].stats.total_records =
              ReportedTotal("group") + ReportedTotal("notice")
        /\ outcome[1].stats.successful =
              ReportedSuccessful("group") + ReportedSuccessful("notice")

\* Two records generated by the group unit and one by the notice unit, the
\* group unit after a retried Failed attempt: three records in the outcome.
C31_Witness ==
    /\ CleanRun
    /\ ReportedSuccessful("group") = 2
    /\ ReportedSuccessful("notice") = 1
    /\ invocations["group"] > 1
    /\ outcome[1].stats.total_records = 3
    /\ outcome[1].stats.successful = 3


\* C32 (RouterSpec): every envelope the Router returns, from Orchestrator.process
\* and from process_query, has the keys status, routing_decision,
\* file_resolution, execution_result and errors; its status is SUCCESS, FAILED
\* or AWAITING_USER_INPUT, never PENDING; execution_result is set only when a
\* dispatch POST was made; and SUCCESS implies a dispatch was made and errors
\* is empty.
EnvelopeKeys ==
    {"status", "routing_decision", "file_resolution", "execution_result", "errors"}
Dispatched == posts # <<>> /\ posts[Len(posts)].outcome # "pending"
C32_EnvelopeOnReturn ==
    rpc = "done" =>
        /\ EnvelopeKeys \subseteq DOMAIN envelope
        /\ envelope.status \in {"SUCCESS", "FAILED", "AWAITING_USER_INPUT"}
        /\ envelope.execution_result # None => Dispatched
        /\ envelope.status = "SUCCESS" => Dispatched /\ envelope.errors = <<>>

\* An envelope returned SUCCESS with the agent's reply, after a request of the
\* same session had been returned FAILED.
C32_Witness ==
    /\ rpc = "done"
    /\ turn = 2
    /\ envelope.status = "SUCCESS"
    /\ envelope.execution_result # None
    /\ Len(posts) = 1
    /\ posts[1].outcome = "ok"


\* C33 (TwinSpec): for retry purposes a raised fault counts as a returned
\* Failed result. Two runs of execute_with_retry on equal tasks whose attempt
\* outcomes differ in one attempt, Failed in one run and a raised fault in the
\* other, make the same number of stage invocations, go through the same
\* retry_count values, sleep the same backoff delays and end in the same
\* status. (Each delay is base * multiplier^(retry_count - 1) for the count
\* it was slept at, so equal delays are equal counts.)
BothRuns(position) == \A u \in Units : upc[u] = position
C33_FaultAsFailed ==
    BothRuns("done") =>
        /\ invocations["group"] = invocations["notice"]
        /\ task["group"].retry_count = task["notice"].retry_count
        /\ sleeps["group"] = sleeps["notice"]
        /\ task["group"].status = task["notice"].status

\* Both runs returned Completed from their third attempt; the second attempt
\* returned Failed in one run and raised in the other.
C33_Witness ==
    /\ BothRuns("done")
    /\ call.replaced = 2
    /\ call.outcomes["group"][2] = "failed"
    /\ call.outcomes["notice"][2] = "raise"
    /\ \A u \in Units : invocations[u] = 3 /\ task[u].status = "completed"
    /\ last_error["group"] = None
    /\ last_error["notice"] # None


\* C34 (RetrySpec): when execute_with_retry returns because the budget is
\* exhausted, the task is Failed and its error_message is the message of the
\* most recent fault if an attempt of the run raised, and the literal
\* "Max retries exceeded" otherwise; the message a stage unit set on a
\* returned Failed result does not survive.
C34_ExhaustionMessage ==
    \A u \in Units :
        exit[u] = "exhausted" =>
            /\ task[u].status = "failed"
            /\ task[u].error_message =
                  IF last_error[u] # None THEN last_error[u]
                  ELSE <<"Max retries exceeded">>
            /\ task[u].error_message # <<"stage error">>

\* Three attempts, none of which raised, the budget of three used up.
C34_Witness ==
    /\ exit["group"] = "exhausted"
    /\ invocations["group"] = 3
    /\ last_error["group"] = None
    /\ task["group"].retry_count = 3
    /\ task["group"].error_message = <<"Max retries exceeded">>


\* C35 (FaultSpec): a pipeline run finalizes its outcome exactly once. On every
\* path through process_document_request (configuration error, validation
\* failure, all-failed short-circuit, normal finalize, unexpected fault)
\* mark_completed has been called once when the outcome is returned and never
\* before, and the returned status is SUCCESS, PARTIAL_FAILURE or FAILED,
\* never the initial PENDING.
C35_FinalizedOnce ==
    /\ result.finalized <= 1
    /\ pc = "done" <=> outcome # None
    /\ outcome # None <=> result.finalized = 1
    /\ outcome # None =>
          /\ outcome[1].status \in {"SUCCESS", "PARTIAL_FAILURE", "FAILED"}
          /\ outcome[1].status = result.status
          /\ outcome[1].duration_seconds = "elapsed"

\* A run finalized PARTIAL_FAILURE after the merge stage returned.
C35_Witness ==
    /\ pc = "done"
    /\ calls.merger = 1
    /\ outcome # None
    /\ outcome[1].status = "PARTIAL_FAILURE"
    /\ result.finalized = 1


\* C36 as stated (RouterSpec): the files of a routed request are resolved
\* under the base path of the registration the routing decision selected:
\* every path in the envelope's file_resolution lies under that
\* registration's own file_resolution.base_path, never under the base path of
\* another registration of the registry.
C36_ResolvedUnderOwnBasePath ==
    (router = "process" /\ selected # None /\ envelope.file_resolution # None) =>
        \A ft \in DOMAIN envelope.file_resolution[1] \ {"missing"} :
            envelope.file_resolution[1][ft] # None =>
                envelope.file_resolution[1][ft][1][1] =
                    selected[1].file_resolution.base_path[1]


\* C37 (RetrySpec): on a task that started fresh (retry_count = 0, so that
\* every increment of the count has its sleep), execute_with_retry invokes the
\* stage unit at most max_retries times, the first attempt included; when
\* every attempt failed it returns after exactly max_retries invocations with
\* the task Failed, and with max_retries = 0 it returns the task Failed
\* without any invocation.
StartedFresh(u) == upc[u] # "idle" /\ task[u].retry_count = Len(sleeps[u])
C37_FirstAttemptCounts ==
    \A u \in Units :
        StartedFresh(u) =>
            /\ invocations[u] <= task[u].max_retries
            /\ (upc[u] = "done" /\ invocations[u] = Len(sleeps[u])) =>
                  /\ invocations[u] = task[u].max_retries
                  /\ exit[u] = "exhausted"
                  /\ task[u].status = "failed"
            /\ exit[u] = "exhausted" => invocations[u] = task[u].max_retries
            /\ (upc[u] = "done" /\ task[u].max_retries = 0) =>
                  /\ invocations[u] = 0
                  /\ task[u].status = "failed"

\* A fresh task of budget 3 whose three attempts failed, one by a fault.
C37_Witness ==
    /\ StartedFresh("group")
    /\ task["group"].max_retries = 3
    /\ exit["group"] = "exhausted"
    /\ invocations["group"] = 3
    /\ Len(sleeps["group"]) = 3
    /\ last_error["group"] # None
    /\ task["group"].status = "failed"


\* C38 as stated (RetrySpec): execute_with_retry sleeps a backoff delay only
\* when another attempt follows. While the executor sleeps the task can still
\* be retried, so that the sleep is followed by an invocation; and a run that
\* has returned made an invocation after each of its sleeps, so that the
\* attempt that used up the budget was not followed by a sleep.
C38_SleepOnlyBeforeAttempt ==
    \A u \in Units :
        /\ upc[u] = "sleeping" => can_retry(task[u])
        /\ (upc[u] = "done" /\ sleeps[u] # <<>>) => Len(sleeps[u]) < invocations[u]


\* C39 (RetryLiveSpec): execute_with_retry terminates. For every budget and
\* every behaviour of the stage unit, each invocation of which terminates, the
\* executor returns; and every pass through the loop body either returns or
\* increases retry_count by one, never beyond max_retries.
LoopBodyEnds(u) == upc[u] \in {"returned", "raised"} /\ upc'[u] # upc[u]
C39_Terminates ==
    /\ <>(upc["group"] = "done")
    /\ [][\A u \in Units :
            LoopBodyEnds(u) =>
                \/ upc'[u] = "done"
                \/ /\ task'[u].retry_count = task[u].retry_count + 1
                   /\ task'[u].retry_count <= task'[u].max_retries
         ]_vars

\* A run that returned after the largest budget was used up: three
\* invocations, three sleeps.
C39_Witness ==
    /\ upc["group"] = "done"
    /\ task["group"].max_retries = MaxRetriesBound
    /\ task["group"].retry_count = MaxRetriesBound
    /\ invocations["group"] = MaxRetriesBound
    /\ Len(sleeps["group"]) = MaxRetriesBound

====
